---- MODULE Spec2Model ----
(***************************************************************************)
(* A model of the kbcli command lifecycles: one invocation of one command, *)
(* its option value, the calls it sends to the API server and what it      *)
(* prints.  Strings that the code builds or takes apart (generated names,  *)
(* error messages, edited rows) are sequences of tokens; a name that is    *)
(* only compared is a plain string.                                        *)
(***************************************************************************)
EXTENDS Integers, Sequences, FiniteSets, TLC

\* ---------------------------------------------------------------- bounds
\* lines of edited text / --set values given to edit-backup-policy
MaxRows == 3
\* objects the API server holds for a list command
MaxItems == 3
\* distinct creation timestamps of listed objects
MaxTime == 2
\* backup names given to describe-backup
MaxNames == 3

\* ------------------------------------------------------------- universes
Commands ==
    {"backup", "restore", "describe-backup-policy", "describe-backup",
     "account",
     "delete-backup", "terminate", "edit-backup-policy",
     "list-backups", "list-backup-policy", "PrintBackupList",
     "PrintBackupPolicyList", "example",
     "GetKubeBlocksDeploy", "GetDataProtectionDeploy", "getKubeBlocksVersion",
     "config-smtpserver"}

AccountCommands ==
    {"create-account", "delete-account", "describe-account",
     "list-accounts", "grant-role", "revoke-role"}

DefaultNamespace == "default"
Timestamp == "20060102150405"
NoErr == <<>>

\* ------------------------------------------------------------ text helpers
RECURSIVE Join(_, _)
\* strings.Join(parts, sep), parts a sequence of token sequences
Join(parts, sep) ==
    IF Len(parts) = 0 THEN <<>>
    ELSE IF Len(parts) = 1 THEN parts[1]
    ELSE parts[1] \o <<sep>> \o Join(Tail(parts), sep)

\* a plain name as text: the empty string has no token
Text(s) == IF s = "" THEN <<>> ELSE <<s>>

\* the message mentions the name
Contains(msg, name) == \E i \in 1..Len(msg) : msg[i] = name

Range(s) == {s[i] : i \in 1..Len(s)}

SeqsUpTo(S, n) == UNION {[1..k -> S] : k \in 0..n}

\* ------------------------------------------------------------------ state
VARIABLES
    cmd,      \* the command of this invocation
    pc,       \* the next call of the command's Run closure
    o,        \* the options value
    server,   \* the objects the API server holds
    env,      \* what the environment answers (kubeconfig, editor, create)
    calls,    \* the requests sent to the API server, in order
    trace,    \* the lifecycle functions that returned, in order
    err,      \* the error the invocation ended with
    out,      \* what was printed
    updates   \* the edited rows an update function was called for, in order

vars == <<cmd, pc, o, server, env, calls, trace, err, out, updates>>

\* a nil *corev1.Pod
NoPod == [name |-> "", cluster |-> "", component |-> ""]

DefaultOptions ==
    [Args |-> <<>>, Name |-> "", Namespace |-> "", Dynamic |-> FALSE,
     BackupName |-> <<>>, BackupPolicyName |-> "", BackupMethod |-> "",
     RetentionPeriod |-> "", ParentBackupName |-> "",
     RestoreBackupName |-> "",
     OpsType |-> "", OpsRequestName |-> <<>>, ClusterRef |-> "",
     hooks |-> {},
     ClusterNames |-> <<>>, Names |-> <<>>, LabelSelector |-> <<>>,
     Force |-> FALSE, ConfirmedNames |-> <<>>,
     sub |-> "", PodName |-> "", ComponentName |-> "", ClusterName |-> "",
     CharType |-> "", Pod |-> NoPod, ExecPod |-> NoPod, Client |-> FALSE,
     name |-> "", values |-> <<>>, original |-> <<>>, target |-> <<>>,
     isTest |-> FALSE, userName |-> "", roleName |-> "", names |-> <<>>,
     smtpFrom |-> "", smtpSmarthost |-> "", smtpAuthUsername |-> "",
     smtpAuthPassword |-> "", smtpAuthIdentity |-> ""]

EmptyServer ==
    [clusters |-> {}, policies |-> {}, backups |-> {}, repos |-> {},
     pods |-> {}, tasks |-> {}, deploys |-> {}]

Policy(name, cluster, isDefault) ==
    [name |-> name, cluster |-> cluster, isDefault |-> isDefault,
     repo |-> "", ts |-> 1]

Backup(name, phase, cluster) ==
    [name |-> name, phase |-> phase, cluster |-> cluster, ts |-> 1]

DefaultEnv ==
    [kubeconfigOK |-> TRUE, createOK |-> TRUE, edited |-> <<<<>>>>,
     before |-> "", returned |-> <<>>, eventsFail |-> {}]

Call(verb, kind, name, by) ==
    [verb |-> verb, kind |-> kind, name |-> name, by |-> by]

Event(op, fn, ok) == [op |-> op, fn |-> fn, ok |-> ok]

WriteVerbs == {"create", "update", "delete"}
ReadVerbs == {"get", "list"}

\* an API error for a Get of an object that does not exist
NotFound(kind, name) == <<kind, name, "not found">>

\* ------------------------------------------------------- command closures
\* the order in which each command's Run closure calls its steps
\* a closure that validates before it completes
LifecycleValidateFirst == <<"Validate", "Complete", "Run">>

LifecycleBackup == <<"Complete", "Validate", "Run">>
LifecycleRestore == <<"Complete", "Validate", "Run">>
LifecycleDescribeBackupPolicy == <<"Complete", "Validate", "Run">>
LifecycleAccount == <<"Validate", "Complete", "Run">>
LifecycleDeleteBackup == <<"Complete", "Run">>
LifecycleTerminate == <<"CheckCrd", "Delete">>
LifecycleExample == <<"GenericComplete", "Complete", "Validate", "Run">>
LifecycleDescribeBackup == <<"Complete", "Run">>

Lifecycle(c) ==
    CASE c = "backup" -> LifecycleBackup
      [] c = "restore" -> LifecycleRestore
      [] c = "describe-backup-policy" -> LifecycleDescribeBackupPolicy
      [] c = "account" -> LifecycleAccount
      [] c = "delete-backup" -> LifecycleDeleteBackup
      [] c = "terminate" -> LifecycleTerminate
      [] c = "example" -> LifecycleExample
      [] c = "describe-backup" -> LifecycleDescribeBackup

FirstStep(c) == Lifecycle(c)[1]

\* the step the closure calls after `step`
After(c, step) ==
    LET l == Lifecycle(c)
        i == CHOOSE k \in 1..Len(l) : l[k] = step
    IN IF i < Len(l) THEN l[i + 1] ELSE "Done"

\* a CheckErr that reports the error and goes on
CheckErrContinue(e, next) == next

\* cmdutil.CheckErr: a non-nil error ends the process
CheckErr(e, next) == IF e = NoErr THEN next ELSE "Fatal"

Checked(e, c, step) == CheckErr(e, After(c, step))

\* ------------------------------------------------- generic create options
\* action.CreateOptions.Complete: namespace and clients from the ambient
\* configuration, the first argument as the resource name.
CreateOptionsComplete(opt, e) ==
    IF ~e.kubeconfigOK
    THEN [err |-> <<"invalid configuration">>, o |-> opt]
    ELSE [err |-> NoErr,
          o |-> [opt EXCEPT !.Namespace = DefaultNamespace,
                            !.Name = IF Len(opt.Args) > 0 THEN opt.Args[1] ELSE @,
                            !.Dynamic = TRUE]]

GenericCompleteEvent(r) ==
    Event("Complete", "action.CreateOptions.Complete", r.err = NoErr)

\* ------------------------------------------------------------ backup command
\* a CompleteBackup that takes the ops request name before it names the backup
CompleteBackupResultNameLast(opt, e) ==
    LET r1 == CreateOptionsComplete(opt, e) IN
    IF r1.err # NoErr
    THEN [err |-> r1.err, o |-> r1.o, events |-> <<GenericCompleteEvent(r1)>>]
    ELSE
      LET o1 == r1.o
          o2 == [o1 EXCEPT !.OpsType = "Backup",
                           !.OpsRequestName = o1.BackupName,
                           !.ClusterRef = o1.Name]
          o3 == IF Len(o2.BackupName) = 0
                THEN [o2 EXCEPT !.BackupName =
                         Join(<<<<"backup">>, Text(o2.Namespace), Text(o2.Name),
                                <<Timestamp>>>>, "-")]
                ELSE o2
          r2 == CreateOptionsComplete(o3, e)
      IN [err |-> r2.err, o |-> r2.o,
          events |-> <<GenericCompleteEvent(r1), GenericCompleteEvent(r2)>>]

\* CreateBackupOptions.CompleteBackup
CompleteBackupResult(opt, e) ==
    LET r1 == CreateOptionsComplete(opt, e) IN
    IF r1.err # NoErr
    THEN [err |-> r1.err, o |-> r1.o, events |-> <<GenericCompleteEvent(r1)>>]
    ELSE
      LET o1 == r1.o
          o2 == IF Len(o1.BackupName) = 0
                THEN [o1 EXCEPT !.BackupName =
                         Join(<<<<"backup">>, Text(o1.Namespace), Text(o1.Name),
                                <<Timestamp>>>>, "-")]
                ELSE o1
          o3 == [o2 EXCEPT !.OpsType = "Backup",
                           !.OpsRequestName = o2.BackupName,
                           !.ClusterRef = o2.Name]
          r2 == CreateOptionsComplete(o3, e)
      IN [err |-> r2.err, o |-> r2.o,
          events |-> <<GenericCompleteEvent(r1), GenericCompleteEvent(r2)>>]

\* dpv1alpha1.RetentionPeriod.ToDuration accepts the period
ValidRetentionPeriods == {"1d", "1y1mo"}
RetentionPeriodOK(p) == p \in ValidRetentionPeriods

\* a default policy lookup that lists the policies of every cluster
getDefaultBackupPolicyAnyCluster(opt, srv) ==
    LET getCluster == Call("get", "Cluster", opt.Name, "Validate")
        listPolicy == Call("list", "BackupPolicy", opt.Name, "Validate")
        items == srv.policies
        defaults == {p \in items : p.isDefault}
    IN
    IF opt.Name \notin srv.clusters
    THEN [name |-> "", err |-> NotFound("Cluster", opt.Name),
          calls |-> <<getCluster>>]
    ELSE IF items = {}
    THEN [name |-> "",
          err |-> <<"not found any backup policy for cluster", opt.Name>>,
          calls |-> <<getCluster, listPolicy>>]
    ELSE IF defaults = {}
    THEN [name |-> "",
          err |-> <<"not found any default backup policy for cluster", opt.Name>>,
          calls |-> <<getCluster, listPolicy>>]
    ELSE IF Cardinality(defaults) > 1
    THEN [name |-> "",
          err |-> <<"cluster", opt.Name, "has multiple default backup policies">>,
          calls |-> <<getCluster, listPolicy>>]
    ELSE [name |-> (CHOOSE p \in defaults : TRUE).name, err |-> NoErr,
          calls |-> <<getCluster, listPolicy>>]

\* CreateBackupOptions.getDefaultBackupPolicy
getDefaultBackupPolicy(opt, srv) ==
    LET getCluster == Call("get", "Cluster", opt.Name, "Validate")
        listPolicy == Call("list", "BackupPolicy", opt.Name, "Validate")
        items == {p \in srv.policies : p.cluster = opt.Name}
        defaults == {p \in items : p.isDefault}
    IN
    IF opt.Name \notin srv.clusters
    THEN [name |-> "", err |-> NotFound("Cluster", opt.Name),
          calls |-> <<getCluster>>]
    ELSE IF items = {}
    THEN [name |-> "",
          err |-> <<"not found any backup policy for cluster", opt.Name>>,
          calls |-> <<getCluster, listPolicy>>]
    ELSE IF defaults = {}
    THEN [name |-> "",
          err |-> <<"not found any default backup policy for cluster", opt.Name>>,
          calls |-> <<getCluster, listPolicy>>]
    ELSE IF Cardinality(defaults) > 1
    THEN [name |-> "",
          err |-> <<"cluster", opt.Name, "has multiple default backup policies">>,
          calls |-> <<getCluster, listPolicy>>]
    ELSE [name |-> (CHOOSE p \in defaults : TRUE).name, err |-> NoErr,
          calls |-> <<getCluster, listPolicy>>]

\* the parent backup check without the test of the parent's phase
ValidateParentBackupAnyPhase(opt, srv) ==
    LET getParent == Call("get", "Backup", opt.ParentBackupName, "Validate")
        found == {b \in srv.backups : b.name = opt.ParentBackupName}
    IN
    IF opt.ParentBackupName = ""
    THEN [err |-> NoErr, calls |-> <<>>]
    ELSE IF found = {}
    THEN [err |-> NotFound("Backup", opt.ParentBackupName),
          calls |-> <<getParent>>]
    ELSE IF (CHOOSE b \in found : TRUE).cluster # opt.Name
    THEN [err |-> <<"parent backup", opt.ParentBackupName,
                    "is not belong to cluster", opt.Name>>,
          calls |-> <<getParent>>]
    ELSE [err |-> NoErr, calls |-> <<getParent>>]

\* the parent backup part of Validate without the instance label comparison
ValidateParentBackupAnyLabel(opt, srv) ==
    LET getParent == Call("get", "Backup", opt.ParentBackupName, "Validate")
        found == {b \in srv.backups : b.name = opt.ParentBackupName}
    IN
    IF opt.ParentBackupName = ""
    THEN [err |-> NoErr, calls |-> <<>>]
    ELSE IF found = {}
    THEN [err |-> NotFound("Backup", opt.ParentBackupName),
          calls |-> <<getParent>>]
    ELSE IF (CHOOSE b \in found : TRUE).phase # "Completed"
    THEN [err |-> <<"parent backup", opt.ParentBackupName, "is not completed">>,
          calls |-> <<getParent>>]
    ELSE [err |-> NoErr, calls |-> <<getParent>>]

\* the parent backup part of CreateBackupOptions.Validate
ValidateParentBackup(opt, srv) ==
    LET getParent == Call("get", "Backup", opt.ParentBackupName, "Validate")
        found == {b \in srv.backups : b.name = opt.ParentBackupName}
    IN
    IF opt.ParentBackupName = ""
    THEN [err |-> NoErr, calls |-> <<>>]
    ELSE IF found = {}
    THEN [err |-> NotFound("Backup", opt.ParentBackupName),
          calls |-> <<getParent>>]
    ELSE
      LET parentBackup == CHOOSE b \in found : TRUE IN
      IF parentBackup.phase # "Completed"
      THEN [err |-> <<"parent backup", opt.ParentBackupName, "is not completed">>,
            calls |-> <<getParent>>]
      ELSE IF parentBackup.cluster # opt.Name
      THEN [err |-> <<"parent backup", opt.ParentBackupName,
                      "is not belong to cluster", opt.Name>>,
            calls |-> <<getParent>>]
      ELSE [err |-> NoErr, calls |-> <<getParent>>]

\* a Validate that tests the method and the retention period before it looks
\* anything up
CreateBackupValidateInputFirst(opt, srv) ==
    IF opt.Name = ""
    THEN [err |-> <<"missing cluster name">>, o |-> opt, calls |-> <<>>]
    ELSE IF opt.BackupMethod = ""
    THEN [err |-> <<"backup method can not be empty, you can specify it by --method">>,
          o |-> opt, calls |-> <<>>]
    ELSE IF opt.RetentionPeriod # "" /\ ~RetentionPeriodOK(opt.RetentionPeriod)
    THEN [err |-> <<"invalid retention period">>, o |-> opt, calls |-> <<>>]
    ELSE
      LET dp == IF opt.BackupPolicyName = ""
                THEN getDefaultBackupPolicy(opt, srv)
                ELSE [name |-> opt.BackupPolicyName, err |-> NoErr,
                      calls |-> <<>>]
      IN
      IF dp.err # NoErr
      THEN [err |-> dp.err, o |-> opt, calls |-> dp.calls]
      ELSE
        LET o1 == [opt EXCEPT !.BackupPolicyName = dp.name]
            c1 == dp.calls \o
                  <<Call("get", "BackupPolicy", o1.BackupPolicyName, "Validate")>>
        IN
        IF ~\E p \in srv.policies : p.name = o1.BackupPolicyName
        THEN [err |-> NotFound("BackupPolicy", o1.BackupPolicyName),
              o |-> o1, calls |-> c1]
        ELSE
          LET pb == ValidateParentBackup(o1, srv) IN
          [err |-> pb.err, o |-> o1, calls |-> c1 \o pb.calls]

\* CreateBackupOptions.Validate
CreateBackupValidate(opt, srv) ==
    IF opt.Name = ""
    THEN [err |-> <<"missing cluster name">>, o |-> opt, calls |-> <<>>]
    ELSE
      LET dp == IF opt.BackupPolicyName = ""
                THEN getDefaultBackupPolicy(opt, srv)
                ELSE [name |-> opt.BackupPolicyName, err |-> NoErr,
                      calls |-> <<>>]
      IN
      IF dp.err # NoErr
      THEN [err |-> dp.err, o |-> opt, calls |-> dp.calls]
      ELSE
        LET o1 == [opt EXCEPT !.BackupPolicyName = dp.name]
            c1 == dp.calls \o
                  <<Call("get", "BackupPolicy", o1.BackupPolicyName, "Validate")>>
        IN
        IF ~\E p \in srv.policies : p.name = o1.BackupPolicyName
        THEN [err |-> NotFound("BackupPolicy", o1.BackupPolicyName),
              o |-> o1, calls |-> c1]
        ELSE IF o1.BackupMethod = ""
        THEN [err |-> <<"backup method can not be empty, you can specify it by --method">>,
              o |-> o1, calls |-> c1]
        ELSE IF o1.RetentionPeriod # "" /\ ~RetentionPeriodOK(o1.RetentionPeriod)
        THEN [err |-> <<"invalid retention period">>, o |-> o1, calls |-> c1]
        ELSE
          LET pb == ValidateParentBackup(o1, srv) IN
          [err |-> pb.err, o |-> o1, calls |-> c1 \o pb.calls]

\* ----------------------------------------------------------- restore command
\* generateClusterName: a random name that no cluster has yet, looked up
\* with read-only Gets; it may fail or give up with an empty name.
GenerateClusterNameResults ==
    {[name |-> "gen1", err |-> NoErr],
     [name |-> "", err |-> <<"the server is unavailable">>],
     [name |-> "", err |-> NoErr]}

\* a Validate that takes whatever name generateClusterName gives, an empty
\* one included
CreateRestoreValidateAnyName(opt, gen) ==
    IF opt.RestoreBackupName = ""
    THEN [err |-> <<"must be specified one of the --backup">>, o |-> opt,
          calls |-> <<>>]
    ELSE
      LET probe == <<Call("get", "Cluster", "gen1", "Validate")>> IN
      IF opt.Name = "" /\ gen.err # NoErr
      THEN [err |-> gen.err, o |-> opt, calls |-> probe]
      ELSE
        LET o1 == IF opt.Name = "" THEN [opt EXCEPT !.Name = gen.name] ELSE opt
        IN [err |-> NoErr,
            o |-> [o1 EXCEPT !.OpsType = "Restore",
                             !.ClusterRef = o1.Name,
                             !.OpsRequestName = Text(o1.Name)],
            calls |-> IF opt.Name = "" THEN probe ELSE <<>>]

\* CreateRestoreOptions.Validate, given what generateClusterName answers
CreateRestoreValidate(opt, gen) ==
    IF opt.RestoreBackupName = ""
    THEN [err |-> <<"must be specified one of the --backup">>, o |-> opt,
          calls |-> <<>>]
    ELSE
      LET probe == <<Call("get", "Cluster", "gen1", "Validate")>> IN
      IF opt.Name = "" /\ gen.err # NoErr
      THEN [err |-> gen.err, o |-> opt, calls |-> probe]
      ELSE IF opt.Name = "" /\ gen.name = ""
      THEN [err |-> <<"failed to generate a random cluster name">>, o |-> opt,
            calls |-> probe]
      ELSE
        LET o1 == IF opt.Name = "" THEN [opt EXCEPT !.Name = gen.name] ELSE opt
        IN [err |-> NoErr,
            o |-> [o1 EXCEPT !.OpsType = "Restore",
                             !.ClusterRef = o1.Name,
                             !.OpsRequestName = Text(o1.Name)],
            calls |-> IF opt.Name = "" THEN probe ELSE <<>>]

\* -------------------------------------------------------- generic create run
\* the hooks of action.CreateOptions
Hooks == {"CreateDependencies", "PreCreate", "CleanUp"}

\* where a create run may fail: in a hook or in the submission
CreateFailures == {"", "CreateDependencies", "PreCreate", "submit"}

\* a hook that is set is invoked, one that is not set is skipped
Invoke(opt, hook) == IF hook \in opt.hooks THEN <<hook>> ELSE <<>>

\* a Run that cleans up after any failure
CreateOptionsRunCleanUpAlways(opt, failing) ==
    LET submit == Call("create", "Object", opt.OpsRequestName, "Run")
        deps == Invoke(opt, "CreateDependencies")
        pre == Invoke(opt, "PreCreate")
    IN
    IF failing = "CreateDependencies" /\ deps # <<>>
    THEN [err |-> <<"create dependencies failed">>, calls |-> <<>>,
          steps |-> deps \o Invoke(opt, "CleanUp")]
    ELSE IF failing = "PreCreate" /\ pre # <<>>
    THEN [err |-> <<"pre-create failed">>, calls |-> <<>>,
          steps |-> deps \o pre \o Invoke(opt, "CleanUp")]
    ELSE IF failing = "submit"
    THEN [err |-> <<"create rejected">>, calls |-> <<submit>>,
          steps |-> deps \o pre \o <<"submit">> \o Invoke(opt, "CleanUp")]
    ELSE [err |-> NoErr, calls |-> <<submit>>,
          steps |-> deps \o pre \o <<"submit", "created">>]

\* action.CreateOptions.Run: CreateDependencies, PreCreate, the create
\* request and the output callback; a failing hook returns its error, a
\* failing submission invokes CleanUp and returns the raw error.
CreateOptionsRun(opt, failing) ==
    LET submit == Call("create", "Object", opt.OpsRequestName, "Run")
        deps == Invoke(opt, "CreateDependencies")
        pre == Invoke(opt, "PreCreate")
    IN
    IF failing = "CreateDependencies" /\ deps # <<>>
    THEN [err |-> <<"create dependencies failed">>, calls |-> <<>>,
          steps |-> deps]
    ELSE IF failing = "PreCreate" /\ pre # <<>>
    THEN [err |-> <<"pre-create failed">>, calls |-> <<>>,
          steps |-> deps \o pre]
    ELSE IF failing = "submit"
    THEN [err |-> <<"create rejected">>, calls |-> <<submit>>,
          steps |-> deps \o pre \o <<"submit">> \o Invoke(opt, "CleanUp")]
    ELSE [err |-> NoErr, calls |-> <<submit>>,
          steps |-> deps \o pre \o <<"submit", "created">>]

\* ------------------------------------------------------------ label selector
\* util.BuildLabelSelectorByNames: the selector with an "instance in (names)"
\* requirement added; a selector is the list of its requirements.
BuildLabelSelectorByNames(selector, names) ==
    IF Len(names) = 0 THEN selector ELSE Append(selector, Range(names))

MatchesSelector(obj, selector) ==
    \A i \in 1..Len(selector) : obj.cluster \in selector[i]

\* every order the API server may return a set of objects in
ListOrders(S) ==
    {s \in [1..Cardinality(S) -> S] : \A i, j \in DOMAIN s : i # j => s[i] # s[j]}

\* ------------------------------------------------- describe-backup-policy
\* DescribeBackupPolicyOptions.Complete
DescribeBackupPolicyComplete(opt, e) ==
    IF ~e.kubeconfigOK
    THEN [err |-> <<"invalid configuration">>, o |-> opt]
    ELSE [err |-> NoErr,
          o |-> [opt EXCEPT !.Dynamic = TRUE, !.Namespace = DefaultNamespace]]

\* DescribeBackupPolicyOptions.Validate
DescribeBackupPolicyValidate(opt) ==
    IF Len(opt.ClusterNames) = 0 /\ Len(opt.Names) = 0
    THEN <<"missing cluster name or backup policy name">>
    ELSE NoErr

\* a Run that prints default policies only, whatever --name says
RECURSIVE DescribeBackupPolicyPrintedDefaultsOnly(_, _)
DescribeBackupPolicyPrintedDefaultsOnly(opt, items) ==
    IF Len(items) = 0 THEN <<>>
    ELSE
      LET obj == Head(items)
          skip == \/ Len(opt.Names) > 0 /\ obj.name \notin Range(opt.Names)
                  \/ ~obj.isDefault
      IN (IF skip THEN <<>> ELSE <<obj.name>>)
         \o DescribeBackupPolicyPrintedDefaultsOnly(opt, Tail(items))

\* the policies DescribeBackupPolicyOptions.Run prints of the listed ones
RECURSIVE DescribeBackupPolicyPrinted(_, _)
DescribeBackupPolicyPrinted(opt, items) ==
    IF Len(items) = 0 THEN <<>>
    ELSE
      LET obj == Head(items)
          skip == \/ Len(opt.Names) > 0 /\ obj.name \notin Range(opt.Names)
                  \/ Len(opt.Names) = 0 /\ ~obj.isDefault
      IN (IF skip THEN <<>> ELSE <<obj.name>>)
         \o DescribeBackupPolicyPrinted(opt, Tail(items))

\* DescribeBackupPolicyOptions.Run, given the list the server returned
DescribeBackupPolicyRun(opt, items) ==
    IF Len(items) = 0
    THEN <<"No backup policy found">>
    ELSE DescribeBackupPolicyPrinted(opt, items)

\* ------------------------------------------------------------ describe-backup
\* DescribeBackupOptions.Complete
DescribeBackupComplete(opt, args, e) ==
    IF Len(args) = 0
    THEN [err |-> <<"backup name should be specified">>, o |-> opt]
    ELSE IF ~e.kubeconfigOK
    THEN [err |-> <<"invalid configuration">>, o |-> [opt EXCEPT !.names = args]]
    ELSE [err |-> NoErr,
          o |-> [opt EXCEPT !.names = args, !.Client = TRUE, !.Dynamic = TRUE,
                            !.Namespace = DefaultNamespace]]

\* what describing one backup sends: the Get of the backup and, by
\* printBackupObj, the search of its events
GetBackup(name) == Call("get", "Backup", name, "Run")
SearchEvents(name) == Call("list", "Event", name, "printBackupObj")

\* realPrintPairStringToLine: the pair is printed only for a value that is
\* not empty
realPrintPairStringToLine(name, value) ==
    IF value # <<>> THEN <<<<name, value>>>> ELSE <<>>

\* what the listing of the backup's jobs answers to enhancePrintFailureReason
JobAnswers == {"fails", "no failed job", "failed job with logs"}

\* enhancePrintFailureReason: the lines printed for the failure reason
enhancePrintFailureReason(obj, jobs) ==
    IF obj.failureReason = "" \/ jobs = "fails" THEN <<>>
    ELSE IF jobs = "failed job with logs"
    THEN <<<<"Failure Reason",
             <<obj.failureReason, "pod", "job-pod", "error logs:", "log">>>>>>
    ELSE <<<<"Failure Reason", Text(obj.failureReason)>>>>

\* the requests enhancePrintFailureReason sends
failureReasonCalls(obj, jobs) ==
    IF obj.failureReason = "" THEN <<>>
    ELSE <<Call("list", "Job", obj.name, "enhancePrintFailureReason")>> \o
         (IF jobs = "failed job with logs"
          THEN <<Call("list", "Pod", obj.name, "enhancePrintFailureReason"),
                 Call("logs", "Pod", obj.name, "enhancePrintFailureReason")>>
          ELSE <<>>)

\* DescribeBackupOptions.printBackupObj up to the search of the events: the
\* pairs printed, as <<key, value>>; the first three are the pairs given to
\* PrintLineWithTabSeparator
printBackupObj(obj, jobs) ==
    <<<<"Name", Text(obj.name)>>,
      <<"Cluster", Text(obj.cluster)>>,
      <<"Namespace", Text(DefaultNamespace)>>>> \o
    realPrintPairStringToLine("Method", Text(obj.method)) \o
    realPrintPairStringToLine("Policy Name", Text(obj.policy)) \o
    realPrintPairStringToLine("Phase", Text(obj.phase)) \o
    realPrintPairStringToLine("Total Size", Text(obj.totalSize)) \o
    realPrintPairStringToLine("ActionSet Name", Text(obj.actionSet)) \o
    (IF obj.repo # ""
     THEN realPrintPairStringToLine("Repository", Text(obj.repo)) ELSE <<>>) \o
    (IF obj.pvc # ""
     THEN realPrintPairStringToLine("PVC Name", Text(obj.pvc)) ELSE <<>>) \o
    (IF obj.duration # ""
     THEN realPrintPairStringToLine("Duration", Text(obj.duration))
     ELSE <<>>) \o
    realPrintPairStringToLine("Expiration Time", Text(obj.expiration)) \o
    realPrintPairStringToLine("Start Time", Text(obj.start)) \o
    realPrintPairStringToLine("Completion Time", Text(obj.completion)) \o
    enhancePrintFailureReason(obj, jobs) \o
    realPrintPairStringToLine("Path", Text(obj.path)) \o
    (IF obj.timeRange # <<>>
     THEN realPrintPairStringToLine("Time Range Start",
                                    Text(obj.timeRange[1])) \o
          realPrintPairStringToLine("Time Range End", Text(obj.timeRange[2]))
     ELSE <<>>) \o
    (IF Len(obj.volumeSnapshots) > 0
     THEN <<<<"Volume Snapshots", obj.volumeSnapshots>>>> ELSE <<>>)

\* one backup described: its name and the pairs printed for it
Described(obj, jobs) == [name |-> obj.name, lines |-> printBackupObj(obj, jobs)]

RECURSIVE describeBackupsKeepGoing(_, _, _, _, _, _)
\* a Run that goes on with the next name after a failure
describeBackupsKeepGoing(names, i, srv, eventsFail, jobs, acc) ==
    IF i > Len(names) THEN acc
    ELSE
      LET n == names[i]
          obj == CHOOSE b \in srv.backups : b.name = n
          sent == <<GetBackup(n)>> \o failureReasonCalls(obj, jobs) \o
                  <<SearchEvents(n)>>
      IN
      IF ~\E b \in srv.backups : b.name = n
      THEN describeBackupsKeepGoing(names, i + 1, srv, eventsFail, jobs,
              [acc EXCEPT !.calls = Append(@, GetBackup(n)),
                          !.err = NotFound("Backup", n)])
      ELSE IF n \in eventsFail
      THEN describeBackupsKeepGoing(names, i + 1, srv, eventsFail, jobs,
              [acc EXCEPT !.calls = @ \o sent,
                          !.out = Append(@, Described(obj, jobs)),
                          !.err = <<"events of", n, "unavailable">>])
      ELSE describeBackupsKeepGoing(names, i + 1, srv, eventsFail, jobs,
              [acc EXCEPT !.calls = @ \o sent,
                          !.out = Append(@, Described(obj, jobs))])

RECURSIVE describeBackups(_, _, _, _, _, _)
\* the loop of DescribeBackupOptions.Run from the i-th name on; eventsFail
\* are the backups whose events cannot be searched
describeBackups(names, i, srv, eventsFail, jobs, acc) ==
    IF i > Len(names) THEN acc
    ELSE
      LET n == names[i]
          obj == CHOOSE b \in srv.backups : b.name = n
          sent == <<GetBackup(n)>> \o failureReasonCalls(obj, jobs) \o
                  <<SearchEvents(n)>>
      IN
      IF ~\E b \in srv.backups : b.name = n
      THEN [acc EXCEPT !.calls = Append(@, GetBackup(n)),
                       !.err = NotFound("Backup", n)]
      ELSE IF n \in eventsFail
      THEN [acc EXCEPT !.calls = @ \o sent,
                       !.out = Append(@, Described(obj, jobs)),
                       !.err = <<"events of", n, "unavailable">>]
      ELSE describeBackups(names, i + 1, srv, eventsFail, jobs,
              [acc EXCEPT !.calls = @ \o sent,
                          !.out = Append(@, Described(obj, jobs))])

\* DescribeBackupOptions.Run
DescribeBackupRun(opt, srv, eventsFail, jobs) ==
    describeBackups(opt.names, 1, srv, eventsFail, jobs,
                    [calls |-> <<>>, out |-> <<>>, err |-> NoErr])

\* ---------------------------------------------------------- account commands
errClusterNameNum == <<"please specify ONE cluster-name at a time">>
errCompNameOrInstName ==
    <<"please specify either --component or --instance, they are exclusive">>
errClusterNameorInstName == <<"specify either cluster name or --instance">>

\* a Validate that takes the cluster name before it checks the arguments
AccountBaseValidateAssignFirst(opt, args) ==
    LET o1 == IF Len(args) > 0 THEN [opt EXCEPT !.ClusterName = args[1]]
              ELSE opt
    IN
    IF Len(args) > 1
    THEN [err |-> errClusterNameNum, o |-> o1]
    ELSE IF Len(opt.PodName) > 0 /\ Len(opt.ComponentName) > 0
    THEN [err |-> errCompNameOrInstName, o |-> o1]
    ELSE IF Len(opt.PodName) > 0 /\ Len(args) > 0
    THEN [err |-> errClusterNameorInstName, o |-> o1]
    ELSE IF Len(opt.PodName) = 0 /\ Len(args) = 0
    THEN [err |-> errClusterNameorInstName, o |-> o1]
    ELSE [err |-> NoErr, o |-> o1]

\* a Validate that checks --instance before it counts the arguments
AccountBaseValidateInstanceFirst(opt, args) ==
    IF Len(opt.PodName) > 0 /\ Len(opt.ComponentName) > 0
    THEN [err |-> errCompNameOrInstName, o |-> opt]
    ELSE IF Len(opt.PodName) > 0 /\ Len(args) > 0
    THEN [err |-> errClusterNameorInstName, o |-> opt]
    ELSE IF Len(args) > 1
    THEN [err |-> errClusterNameNum, o |-> opt]
    ELSE IF Len(opt.PodName) = 0 /\ Len(args) = 0
    THEN [err |-> errClusterNameorInstName, o |-> opt]
    ELSE [err |-> NoErr,
          o |-> IF Len(args) = 1 THEN [opt EXCEPT !.ClusterName = args[1]]
                ELSE opt]

\* AccountBaseOptions.Validate
AccountBaseValidate(opt, args) ==
    IF Len(args) > 1
    THEN [err |-> errClusterNameNum, o |-> opt]
    ELSE IF Len(opt.PodName) > 0 /\ Len(opt.ComponentName) > 0
    THEN [err |-> errCompNameOrInstName, o |-> opt]
    ELSE IF Len(opt.PodName) > 0 /\ Len(args) > 0
    THEN [err |-> errClusterNameorInstName, o |-> opt]
    ELSE IF Len(opt.PodName) = 0 /\ Len(args) = 0
    THEN [err |-> errClusterNameorInstName, o |-> opt]
    ELSE [err |-> NoErr,
          o |-> IF Len(args) = 1 THEN [opt EXCEPT !.ClusterName = args[1]]
                ELSE opt]

errMissingUserName == <<"please specify username">>
errMissingRoleName == <<"please specify at least ONE role name">>
errInvalidRoleName ==
    <<"invalid role name, should be one of [SUPERUSER, READWRITE, READONLY] ">>

\* the role names the revoke-role validation accepts
RoleNames == {"superuser", "readwrite", "readonly"}

\* a validation that looks at the role before the user name
RevokeValidateRoleFirst(opt, args) ==
    LET r == AccountBaseValidate(opt, args) IN
    IF r.err # NoErr THEN r
    ELSE IF r.o.roleName = "" THEN [err |-> errMissingRoleName, o |-> r.o]
    ELSE IF r.o.roleName \notin RoleNames
    THEN [err |-> errInvalidRoleName, o |-> r.o]
    ELSE IF r.o.userName = "" THEN [err |-> errMissingUserName, o |-> r.o]
    ELSE r

\* the Validate of the revoke-role options: the base validation, then the
\* user name, then the role name
RevokeValidate(opt, args) ==
    LET r == AccountBaseValidate(opt, args) IN
    IF r.err # NoErr THEN r
    ELSE IF r.o.userName = "" THEN [err |-> errMissingUserName, o |-> r.o]
    ELSE IF r.o.roleName = "" THEN [err |-> errMissingRoleName, o |-> r.o]
    ELSE IF r.o.roleName \notin RoleNames
    THEN [err |-> errInvalidRoleName, o |-> r.o]
    ELSE r

\* the Validate of an account command
AccountValidateResult(opt, args) ==
    IF opt.sub = "revoke-role"
    THEN RevokeValidate(opt, args)
    ELSE AccountBaseValidate(opt, args)

\* clusterutil.FillCompInfoByName: the component of the cluster, the first
\* one when none is named
FillCompInfoByName(srv, clusterName, componentName) ==
    IF clusterName \notin srv.clusters
    THEN [err |-> NotFound("Cluster", clusterName), component |-> "",
          charType |-> ""]
    ELSE IF componentName \notin {"", "mysql"}
    THEN [err |-> <<"component", componentName, "not found">>,
          component |-> "", charType |-> ""]
    ELSE [err |-> NoErr, component |-> "mysql", charType |-> "mysql"]

\* compInfo.InferPodName: a pod of the component
InferPodName(srv, clusterName, componentName) ==
    LET ps == {p \in srv.pods : p.cluster = clusterName
                                /\ p.component = componentName}
    IN IF ps = {} THEN [err |-> <<"failed to find the instance">>, name |-> ""]
       ELSE [err |-> NoErr, name |-> (CHOOSE p \in ps : TRUE).name]

\* a Complete that hands ExecOptions the pod it had before the inference
AccountBaseCompleteExecPodFirst(opt, srv, e) ==
    LET getPod(n) == Call("get", "Pod", n, "Complete")
        pod(n) == CHOOSE p \in srv.pods : p.name = n
        exists(n) == \E p \in srv.pods : p.name = n
    IN
    IF ~e.kubeconfigOK
    THEN [err |-> <<"invalid configuration">>, o |-> opt, calls |-> <<>>]
    ELSE
      LET o0 == [opt EXCEPT !.Namespace = DefaultNamespace, !.Dynamic = TRUE,
                            !.Client = TRUE]
          byName == Len(o0.PodName) > 0
      IN
      IF byName /\ ~exists(o0.PodName)
      THEN [err |-> NotFound("Pod", o0.PodName), o |-> o0,
            calls |-> <<getPod(o0.PodName)>>]
      ELSE
        LET o1 == IF byName
                  THEN [o0 EXCEPT !.Pod = pod(o0.PodName),
                                  !.ClusterName = pod(o0.PodName).cluster,
                                  !.ComponentName = pod(o0.PodName).component]
                  ELSE o0
            c1 == (IF byName THEN <<getPod(o0.PodName)>> ELSE <<>>)
                  \o <<Call("get", "Cluster", o1.ClusterName, "Complete")>>
            info == FillCompInfoByName(srv, o1.ClusterName, o1.ComponentName)
        IN
        IF info.err # NoErr
        THEN [err |-> info.err, o |-> o1, calls |-> c1]
        ELSE
          LET o2 == [o1 EXCEPT !.ComponentName =
                                   IF Len(@) = 0 THEN info.component ELSE @,
                               !.CharType = info.charType]
              inferred == InferPodName(srv, o2.ClusterName, o2.ComponentName)
          IN
          IF Len(o2.PodName) > 0
          THEN [err |-> NoErr, o |-> [o2 EXCEPT !.ExecPod = o2.Pod],
                calls |-> c1]
          ELSE IF inferred.err # NoErr
          THEN [err |-> inferred.err, o |-> o2,
                calls |-> Append(c1, Call("list", "Pod", o2.ClusterName, "Complete"))]
          ELSE
            [err |-> NoErr,
             o |-> [o2 EXCEPT !.PodName = inferred.name,
                              !.Pod = pod(inferred.name),
                              !.ExecPod = o2.Pod],
             calls |-> c1 \o <<Call("list", "Pod", o2.ClusterName, "Complete"),
                                getPod(inferred.name)>>]

\* AccountBaseOptions.Complete
AccountBaseComplete(opt, srv, e) ==
    LET getPod(n) == Call("get", "Pod", n, "Complete")
        pod(n) == CHOOSE p \in srv.pods : p.name = n
        exists(n) == \E p \in srv.pods : p.name = n
    IN
    IF ~e.kubeconfigOK
    THEN [err |-> <<"invalid configuration">>, o |-> opt, calls |-> <<>>]
    ELSE
      LET o0 == [opt EXCEPT !.Namespace = DefaultNamespace, !.Dynamic = TRUE,
                            !.Client = TRUE]
          byName == Len(o0.PodName) > 0
      IN
      IF byName /\ ~exists(o0.PodName)
      THEN [err |-> NotFound("Pod", o0.PodName), o |-> o0,
            calls |-> <<getPod(o0.PodName)>>]
      ELSE
        LET o1 == IF byName
                  THEN [o0 EXCEPT !.Pod = pod(o0.PodName),
                                  !.ClusterName = pod(o0.PodName).cluster,
                                  !.ComponentName = pod(o0.PodName).component]
                  ELSE o0
            c1 == (IF byName THEN <<getPod(o0.PodName)>> ELSE <<>>)
                  \o <<Call("get", "Cluster", o1.ClusterName, "Complete")>>
            info == FillCompInfoByName(srv, o1.ClusterName, o1.ComponentName)
        IN
        IF info.err # NoErr
        THEN [err |-> info.err, o |-> o1, calls |-> c1]
        ELSE
          LET o2 == [o1 EXCEPT !.ComponentName =
                                   IF Len(@) = 0 THEN info.component ELSE @,
                               !.CharType = info.charType]
              inferred == InferPodName(srv, o2.ClusterName, o2.ComponentName)
          IN
          IF Len(o2.PodName) > 0
          THEN [err |-> NoErr, o |-> [o2 EXCEPT !.ExecPod = o2.Pod],
                calls |-> c1]
          ELSE IF inferred.err # NoErr
          THEN [err |-> inferred.err, o |-> o2,
                calls |-> Append(c1, Call("list", "Pod", o2.ClusterName, "Complete"))]
          ELSE
            [err |-> NoErr,
             o |-> [o2 EXCEPT !.PodName = inferred.name,
                              !.Pod = pod(inferred.name),
                              !.ExecPod = pod(inferred.name)],
             calls |-> c1 \o <<Call("list", "Pod", o2.ClusterName, "Complete"),
                                getPod(inferred.name)>>]

\* ------------------------------------------------------------ delete commands
\* completeForDeleteBackup without its check for a missing --name
completeForDeleteBackupUnchecked(opt, args) ==
    IF Len(args) = 0
    THEN [err |-> <<"Missing cluster name">>, o |-> opt]
    ELSE IF Len(args) > 1
    THEN [err |-> <<"Only supported delete the Backup of one cluster">>, o |-> opt]
    ELSE
      LET o1 == IF opt.Force /\ Len(opt.Names) = 0
                THEN [opt EXCEPT !.LabelSelector = Append(@, Range(args)),
                                 !.ConfirmedNames = args]
                ELSE opt
      IN [err |-> NoErr, o |-> [o1 EXCEPT !.ConfirmedNames = o1.Names]]

\* completeForDeleteBackup
completeForDeleteBackup(opt, args) ==
    IF Len(args) = 0
    THEN [err |-> <<"Missing cluster name">>, o |-> opt]
    ELSE IF Len(args) > 1
    THEN [err |-> <<"Only supported delete the Backup of one cluster">>, o |-> opt]
    ELSE IF ~opt.Force /\ Len(opt.Names) = 0
    THEN [err |-> <<"Missing --name as backup name.">>, o |-> opt]
    ELSE
      LET o1 == IF opt.Force /\ Len(opt.Names) = 0
                THEN [opt EXCEPT !.LabelSelector =
                                     BuildLabelSelectorByNames(@, args),
                                 !.ConfirmedNames = args]
                ELSE opt
      IN [err |-> NoErr, o |-> [o1 EXCEPT !.ConfirmedNames = o1.Names]]

\* action.DeleteOptions.Run: the named objects, or with force and no name
\* every object the label selector matches
DeleteOptionsRun(opt, kind, objs) ==
    IF Len(opt.Names) = 0 /\ ~opt.Force
    THEN [err |-> <<"no name was specified">>, calls |-> <<>>, deleted |-> {}]
    ELSE IF Len(opt.Names) > 0
    THEN [err |-> NoErr,
          calls |-> [i \in 1..Len(opt.Names) |->
                        Call("delete", kind, opt.Names[i], "Run")],
          deleted |-> Range(opt.Names)]
    ELSE [err |-> NoErr,
          calls |-> <<Call("delete", kind, opt.LabelSelector, "Run")>>,
          deleted |-> {x.name : x \in {y \in objs :
                                          MatchesSelector(y, opt.LabelSelector)}}]

\* deleteMigrationTask
deleteMigrationTask(opt, args, objs) ==
    IF Len(args) = 0
    THEN [err |-> <<"missing migration task name">>, o |-> opt,
          calls |-> <<>>, deleted |-> {}, ran |-> FALSE]
    ELSE
      LET o1 == [opt EXCEPT !.Names = args]
          r == DeleteOptionsRun(o1, "MigrationTask", objs)
      IN [err |-> r.err, o |-> o1, calls |-> r.calls, deleted |-> r.deleted,
          ran |-> TRUE]

\* --------------------------------------------------------- edit-backup-policy
\* the tokens of an edited row
KeyRepoName == "backupRepoName"
EQ == "="
SP == " "
HASH == "#"
DQUOTE == "\""
SQUOTE == "'"
COMMA == ","

RECURSIVE TrimLeft(_, _)
TrimLeft(s, cut) ==
    IF Len(s) > 0 /\ Head(s) = cut THEN TrimLeft(Tail(s), cut) ELSE s

RECURSIVE TrimRight(_, _)
TrimRight(s, cut) ==
    IF Len(s) > 0 /\ s[Len(s)] = cut
    THEN TrimRight(SubSeq(s, 1, Len(s) - 1), cut)
    ELSE s

\* strings.Trim(s, cut) and, with a space, strings.TrimSpace(s)
Trim(s, cut) == TrimRight(TrimLeft(s, cut), cut)

HasPrefix(s, tok) == Len(s) > 0 /\ s[1] = tok

RECURSIVE Split(_, _)
\* strings.Split(s, sep): the parts between the separators
Split(s, sep) ==
    IF \A i \in 1..Len(s) : s[i] # sep
    THEN <<s>>
    ELSE LET k == CHOOSE i \in 1..Len(s) :
                     s[i] = sep /\ \A j \in 1..(i - 1) : s[j] # sep
         IN <<SubSeq(s, 1, k - 1)>> \o Split(SubSeq(s, k + 1, Len(s)), sep)

\* the keys of editBackupPolicyOptions.editContent
editContentKeys == {<<KeyRepoName>>}

\* what applyChanges does with one row, a row the loop skips included
RowKindIgnoringUnknownKeys(v) ==
    LET row == Trim(v, SP) IN
    IF HasPrefix(row, HASH) \/ row = <<>> THEN "skip"
    ELSE IF Len(Split(row, EQ)) # 2 THEN "invalid row"
    ELSE IF Split(row, EQ)[1] \notin editContentKeys THEN "skip"
    ELSE "update"

RowKind(v) ==
    LET row == Trim(v, SP) IN
    IF HasPrefix(row, HASH) \/ row = <<>> THEN "skip"
    ELSE IF Len(Split(row, EQ)) # 2 THEN "invalid row"
    ELSE IF Split(row, EQ)[1] \notin editContentKeys THEN "invalid key"
    ELSE "update"

\* the value applyChanges hands to the update function
RowValue(v) == Trim(Trim(Split(Trim(v, SP), EQ)[2], DQUOTE), SQUOTE)

\* the repository a value names (values of this model are one token long)
RepoOf(val) == IF Len(val) = 0 THEN "" ELSE val[1]

\* updateRepoName
updateRepoName(policy, targetVal, srv) ==
    IF targetVal # <<>> /\ RepoOf(targetVal) \notin srv.repos
    THEN [err |-> NotFound("BackupRepo", RepoOf(targetVal)), policy |-> policy,
          calls |-> <<Call("get", "BackupRepo", RepoOf(targetVal), "updateFunc")>>]
    ELSE [err |-> NoErr,
          policy |-> [policy EXCEPT !.repo = RepoOf(targetVal)],
          calls |-> IF targetVal # <<>>
                    THEN <<Call("get", "BackupRepo", RepoOf(targetVal), "updateFunc")>>
                    ELSE <<>>]

\* buildEditorContent: the rows of the current values, and o.original
buildEditorContent(policy) ==
    IF policy.repo = "" THEN <<>> ELSE <<KeyRepoName, EQ, policy.repo>>

RECURSIVE applyRows(_, _, _, _)
\* the loop of applyChanges from row i on
applyRows(values, i, st, srv) ==
    IF i > Len(values) THEN st
    ELSE
      LET kind == RowKind(values[i])
          row == Trim(values[i], SP)
      IN
      IF kind = "skip" THEN applyRows(values, i + 1, st, srv)
      ELSE
        LET st1 == [st EXCEPT !.target = @ \o row] IN
        IF kind = "invalid row"
        THEN [st1 EXCEPT !.err = <<"invalid row">>, !.at = i]
        ELSE IF kind = "invalid key"
        THEN [st1 EXCEPT !.err = <<"invalid key">> \o Split(row, EQ)[1], !.at = i]
        ELSE
          LET u == updateRepoName(st1.policy, RowValue(values[i]), srv)
              st2 == [st1 EXCEPT !.policy = u.policy,
                                 !.calls = @ \o u.calls,
                                 !.updates = Append(@, i)]
          IN IF u.err # NoErr
             THEN [st2 EXCEPT !.err = u.err, !.at = i]
             ELSE applyRows(values, i + 1, st2, srv)

\* an applyChanges that sends the Update although a row failed
applyChangesUpdateAnyway(opt, policy, srv, updateOK) ==
    LET st == applyRows(opt.values, 1,
                        [policy |-> policy, target |-> opt.target, err |-> NoErr,
                         at |-> 0, calls |-> <<>>, updates |-> <<>>], srv)
        o1 == [opt EXCEPT !.target = st.target]
        update == Call("update", "BackupPolicy", st.policy.name, "applyChanges")
    IN
    IF st.err = NoErr /\ o1.original = o1.target
    THEN [err |-> NoErr, o |-> o1, calls |-> st.calls, updates |-> st.updates,
          out |-> <<"updated (no change)">>, policy |-> policy, written |-> FALSE]
    ELSE IF ~updateOK
    THEN [err |-> <<"update rejected">>, o |-> o1,
          calls |-> Append(st.calls, update), updates |-> st.updates,
          out |-> <<>>, policy |-> policy, written |-> FALSE]
    ELSE [err |-> st.err, o |-> o1, calls |-> Append(st.calls, update),
          updates |-> st.updates, out |-> <<"updated">>, policy |-> st.policy,
          written |-> TRUE]

\* applyChanges, given whether the server accepts the Update
applyChanges(opt, policy, srv, updateOK) ==
    LET st == applyRows(opt.values, 1,
                        [policy |-> policy, target |-> opt.target, err |-> NoErr,
                         at |-> 0, calls |-> <<>>, updates |-> <<>>], srv)
        o1 == [opt EXCEPT !.target = st.target]
        update == Call("update", "BackupPolicy", st.policy.name, "applyChanges")
    IN
    IF st.err # NoErr
    THEN [err |-> st.err, o |-> o1, calls |-> st.calls, updates |-> st.updates,
          out |-> <<>>, policy |-> policy, written |-> FALSE]
    ELSE IF o1.original = o1.target
    THEN [err |-> NoErr, o |-> o1, calls |-> st.calls, updates |-> st.updates,
          out |-> <<"updated (no change)">>, policy |-> policy, written |-> FALSE]
    ELSE IF ~updateOK
    THEN [err |-> <<"update rejected">>, o |-> o1,
          calls |-> Append(st.calls, update), updates |-> st.updates,
          out |-> <<>>, policy |-> policy, written |-> FALSE]
    ELSE [err |-> NoErr, o |-> o1, calls |-> Append(st.calls, update),
          updates |-> st.updates, out |-> <<"updated">>, policy |-> st.policy,
          written |-> TRUE]

\* editBackupPolicyOptions.complete
editComplete(opt, args, e) ==
    IF Len(args) = 0
    THEN [err |-> <<"missing backupPolicy name">>, o |-> opt]
    ELSE IF Len(args) > 1
    THEN [err |-> <<"only support to update one backupPolicy or quote cronExpression">>,
          o |-> opt]
    ELSE IF ~e.kubeconfigOK
    THEN [err |-> <<"invalid configuration">>, o |-> [opt EXCEPT !.name = args[1]]]
    ELSE [err |-> NoErr,
          o |-> [opt EXCEPT !.name = args[1], !.Namespace = DefaultNamespace,
                            !.Dynamic = TRUE]]

\* runEditBackupPolicy with runWithEditor, given the lines the editor
\* returns, whether the editor ran, and whether the server accepts the Update
runEditBackupPolicy(opt, srv, edited, editorOK, updateOK) ==
    LET get == Call("get", "BackupPolicy", opt.name, "runEditBackupPolicy")
        found == {p \in srv.policies : p.name = opt.name}
        none == [calls |-> <<get>>, updates |-> <<>>, out |-> <<>>,
                 written |-> FALSE]
    IN
    IF found = {}
    THEN [err |-> NotFound("BackupPolicy", opt.name), o |-> opt,
          policy |-> Policy(opt.name, "", FALSE)] @@ none
    ELSE
      LET policy == CHOOSE p \in found : TRUE
          withEditor == Len(opt.values) = 0
          o1 == IF withEditor
                THEN [opt EXCEPT !.original = @ \o buildEditorContent(policy)]
                ELSE opt
      IN
      IF withEditor /\ ~opt.isTest /\ ~editorOK
      THEN [err |-> <<"editor failed">>, o |-> o1, policy |-> policy] @@ none
      ELSE
        LET o2 == IF withEditor
                  THEN [o1 EXCEPT !.values = IF opt.isTest THEN <<<<>>>> ELSE edited]
                  ELSE o1
            r == applyChanges(o2, policy, srv, updateOK)
        IN [r EXCEPT !.calls = <<get>> \o @]

\* ------------------------------------------------------- util/version.go
\* a Deployment of the KubeBlocks chart: its name and component labels and,
\* when it has one, its version label
Deploy(name, component, v) ==
    [name |-> name,
     labels |-> {<<"app.kubernetes.io/name", "kubeblocks">>,
                 <<"app.kubernetes.io/component", component>>} \cup
                (IF v = "" THEN {}
                 ELSE {<<"app.kubernetes.io/version", v>>})]

\* a nil *appsv1.Deployment
NoDeploy == [name |-> "", labels |-> {}]

\* a lookup that takes the first of several matching deployments
GetKubeBlocksDeployFirstOfMany(deploys, listOK) ==
    LET items == {d \in deploys :
                     {<<"app.kubernetes.io/name", "kubeblocks">>,
                      <<"app.kubernetes.io/component", "apps">>} \subseteq d.labels}
    IN
    IF ~listOK THEN [deploy |-> NoDeploy, err |-> <<"list failed">>]
    ELSE IF items = {} THEN [deploy |-> NoDeploy, err |-> NoErr]
    ELSE [deploy |-> CHOOSE d \in items : TRUE, err |-> NoErr]

\* GetKubeBlocksDeploy, given the deployments of all namespaces and whether
\* the List succeeds
GetKubeBlocksDeploy(deploys, listOK) ==
    LET items == {d \in deploys :
                     {<<"app.kubernetes.io/name", "kubeblocks">>,
                      <<"app.kubernetes.io/component", "apps">>} \subseteq d.labels}
    IN
    IF ~listOK THEN [deploy |-> NoDeploy, err |-> <<"list failed">>]
    ELSE IF items = {} THEN [deploy |-> NoDeploy, err |-> NoErr]
    ELSE IF Cardinality(items) > 1
    THEN [deploy |-> NoDeploy,
          err |-> <<"found multiple KubeBlocks deployments, please check your cluster">>]
    ELSE [deploy |-> CHOOSE d \in items : TRUE, err |-> NoErr]

\* GetDataProtectionDeploy
GetDataProtectionDeploy(deploys, listOK) ==
    LET items == {d \in deploys :
                     {<<"app.kubernetes.io/name", "kubeblocks">>,
                      <<"app.kubernetes.io/component", "dataprotection">>}
                         \subseteq d.labels}
    IN
    IF ~listOK THEN [deploy |-> NoDeploy, err |-> <<"list failed">>]
    ELSE IF items = {} THEN [deploy |-> NoDeploy, err |-> NoErr]
    ELSE IF Cardinality(items) > 1
    THEN [deploy |-> NoDeploy,
          err |-> <<"found multiple DataProtection deployments, please check your cluster">>]
    ELSE [deploy |-> CHOOSE d \in items : TRUE, err |-> NoErr]

\* getKubeBlocksVersion
getKubeBlocksVersion(deploys, listOK) ==
    LET r == GetKubeBlocksDeploy(deploys, listOK)
        labels == r.deploy.labels
        versions == {l \in labels : l[1] = "app.kubernetes.io/version"}
    IN
    IF r.err # NoErr \/ r.deploy = NoDeploy
    THEN [deploy |-> r.deploy, version |-> "", err |-> r.err]
    ELSE IF labels = {}
    THEN [deploy |-> r.deploy, version |-> "",
          err |-> <<"KubeBlocks deployment has no labels">>]
    ELSE IF versions = {}
    THEN [deploy |-> r.deploy, version |-> "",
          err |-> <<"KubeBlocks deployment has no version label">>]
    ELSE [deploy |-> r.deploy, version |-> (CHOOSE l \in versions : TRUE)[2],
          err |-> NoErr]

\* ------------------------------------------------ alert config-smtpserver
\* a validate that does not ask for the password
configSMTPServerValidateNoPassword(opt) ==
    IF opt.smtpFrom = "" THEN <<"smtp-from must be set">>
    ELSE IF opt.smtpSmarthost = "" THEN <<"smtp-smarthost must be set">>
    ELSE IF opt.smtpAuthUsername = "" THEN <<"smtp-auth-username must be set">>
    ELSE NoErr

\* configSMTPServerOptions.validate, as its test states it step by step
configSMTPServerValidate(opt) ==
    IF opt.smtpFrom = "" THEN <<"smtp-from must be set">>
    ELSE IF opt.smtpSmarthost = "" THEN <<"smtp-smarthost must be set">>
    ELSE IF opt.smtpAuthUsername = "" THEN <<"smtp-auth-username must be set">>
    ELSE IF opt.smtpAuthPassword = "" THEN <<"smtp-auth-password must be set">>
    ELSE NoErr

\* ------------------------------------------------------------------ Init
PolicyConfigs ==
    {{},
     {Policy("p1", "c1", FALSE)},
     {Policy("p1", "c1", TRUE)},
     {Policy("p1", "c1", TRUE), Policy("p2", "c1", TRUE)},
     {Policy("p1", "c1", TRUE), Policy("p2", "c1", FALSE)},
     {Policy("p1", "c1", TRUE), Policy("p3", "c2", TRUE)}}

ParentConfigs ==
    {{}} \cup
    {{Backup("b1", ph, cl)} :
        ph \in {"Completed", "Running"}, cl \in {"c1", "c2", ""}}

InitBackup ==
    /\ cmd = "backup"
    /\ pc = FirstStep(cmd)
    /\ \E args \in {<<>>, <<"c1">>, <<"c2">>},
          name \in {<<>>, <<"mybackup">>},
          policy \in {"", "p1"},
          method \in {"", "xtrabackup"},
          retention \in {"", "1d", "1x"},
          parent \in {"", "b1"} :
          o = [DefaultOptions EXCEPT !.Args = args, !.BackupName = name,
                                     !.BackupPolicyName = policy,
                                     !.BackupMethod = method,
                                     !.RetentionPeriod = retention,
                                     !.ParentBackupName = parent]
    /\ \E ps \in PolicyConfigs, bs \in ParentConfigs :
          server = [EmptyServer EXCEPT !.clusters = {"c1"}, !.policies = ps,
                                       !.backups = bs]
    /\ env = DefaultEnv

InitRestore ==
    /\ cmd = "restore"
    /\ pc = FirstStep(cmd)
    /\ \E args \in {<<>>, <<"c2">>}, backup \in {"", "b1"} :
          o = [DefaultOptions EXCEPT !.Args = args, !.RestoreBackupName = backup]
    /\ server = [EmptyServer EXCEPT !.clusters = {"c1"}]
    /\ env = DefaultEnv

InitDescribeBackupPolicy ==
    /\ cmd = "describe-backup-policy"
    /\ pc = FirstStep(cmd)
    /\ \E args \in {<<>>, <<"c1">>, <<"c2">>},
          names \in {<<>>, <<"p1">>, <<"p2">>, <<"p1", "p2">>} :
          o = [DefaultOptions EXCEPT !.Args = args, !.Names = names]
    /\ \E ps \in PolicyConfigs :
          server = [EmptyServer EXCEPT !.clusters = {"c1"}, !.policies = ps]
    /\ env = DefaultEnv

\* the pods of the namespace: none, a pod of the cluster's component, and
\* with it a pod that carries the cluster label but no component label
PodConfigs ==
    {{},
     {[name |-> "pod-0", cluster |-> "c1", component |-> "mysql"]},
     {[name |-> "pod-0", cluster |-> "c1", component |-> "mysql"],
      [name |-> "pod-x", cluster |-> "c1", component |-> ""]}}

InitAccount ==
    /\ cmd = "account"
    /\ pc = FirstStep(cmd)
    /\ \E sub \in AccountCommands,
          args \in {<<>>, <<"c1">>, <<"c2">>, <<"c1", "c2">>},
          pod \in {"", "pod-0", "pod-x"},
          comp \in {"", "mysql", "proxy"},
          user \in {"", "alice"},
          role \in {"", "bar"} \cup RoleNames :
          /\ sub # "revoke-role" => user = "" /\ role = ""
          /\ o = [DefaultOptions EXCEPT !.sub = sub, !.Args = args,
                                        !.PodName = pod, !.ComponentName = comp,
                                        !.userName = user, !.roleName = role]
    /\ \E ps \in PodConfigs :
          server = [EmptyServer EXCEPT !.clusters = {"c1"}, !.pods = ps]
    /\ env = DefaultEnv

DeleteServer ==
    [EmptyServer EXCEPT
        !.clusters = {"c1", "c2"},
        !.backups = {Backup("b1", "Completed", "c1"),
                     Backup("b2", "Running", "c1"),
                     Backup("b3", "Completed", "c2")},
        !.tasks = {[name |-> "t1", cluster |-> ""],
                   [name |-> "t2", cluster |-> ""]}]

InitDeleteBackup ==
    /\ cmd = "delete-backup"
    /\ pc = FirstStep(cmd)
    /\ \E args \in SeqsUpTo({"c1", "c2"}, 2),
          names \in {<<>>, <<"b1">>, <<"b1", "b2">>},
          force \in BOOLEAN :
          o = [DefaultOptions EXCEPT !.Args = args, !.Names = names,
                                     !.Force = force]
    /\ server = DeleteServer
    /\ env = DefaultEnv

InitTerminate ==
    /\ cmd = "terminate"
    /\ pc = FirstStep(cmd)
    /\ \E args \in SeqsUpTo({"t1", "t2"}, 2), force \in BOOLEAN :
          o = [DefaultOptions EXCEPT !.Args = args, !.Force = force]
    /\ server = DeleteServer
    /\ env = DefaultEnv

\* a Backup object with the fields printBackupObj reads; an empty string is
\* a field, label or pointer that is not set (a time is held as formatted by
\* util.TimeFormat, a nil time as the empty string), <<>> a nil time range
BackupObj(name, phase, cluster, method, repo, pvc, duration, reason, range) ==
    [name |-> name, phase |-> phase, cluster |-> cluster, ts |-> 1,
     method |-> method, policy |-> "p1", totalSize |-> "", actionSet |-> "",
     repo |-> repo, pvc |-> pvc, duration |-> duration,
     expiration |-> "", start |-> "t0", completion |-> "",
     failureReason |-> reason, path |-> "", timeRange |-> range,
     volumeSnapshots |-> <<>>]

\* the backups b1 that describe-backup finds
DescribedBackups ==
    {BackupObj("b1", IF reason = "" THEN "Completed" ELSE "Failed", cl,
               "xtrabackup", store[1], store[2], d, reason, range) :
        cl \in {"", "c1"},
        store \in {<<"", "">>, <<"repo1", "">>, <<"", "pvc1">>},
        d \in {"", "5m"}, reason \in {"", "oom"},
        range \in {<<>>, <<"", "t2">>, <<"t1", "t2">>}}

\* the backup names given to describe-backup
DescribeNames == {"b1", "b2", "b9"}

InitDescribeBackup ==
    /\ cmd = "describe-backup"
    /\ pc = FirstStep(cmd)
    /\ \E args \in SeqsUpTo(DescribeNames, MaxNames) :
          o = [DefaultOptions EXCEPT !.Args = args]
    /\ \E b1 \in DescribedBackups :
          server = [EmptyServer EXCEPT
                       !.clusters = {"c1", "c2"},
                       !.backups = {b1,
                           BackupObj("b2", "Running", "c1", "xtrabackup",
                                     "repo1", "", "", "", <<>>)}]
    /\ \E failing \in SUBSET {"b1", "b2"} :
          env = [DefaultEnv EXCEPT !.eventsFail = failing]

\* config-smtpserver with any of its flags set, as the test sets them
InitSMTP ==
    /\ cmd = "config-smtpserver"
    /\ pc = "validate"
    /\ \E from \in {"", "user@kubeblocks.io"},
          host \in {"", "smtp.feishu.cn:587"},
          user \in {"", "admin@kubeblocks.io"},
          password \in {"", "123456abc"},
          identity \in {"", "admin@kubeblocks.io"} :
          o = [DefaultOptions EXCEPT !.smtpFrom = from, !.smtpSmarthost = host,
                                     !.smtpAuthUsername = user,
                                     !.smtpAuthPassword = password,
                                     !.smtpAuthIdentity = identity]
    /\ server = EmptyServer
    /\ env = DefaultEnv

\* a call of one of the deployment lookups of util/version.go, against any
\* set of deployments the cluster may hold
InitVersion ==
    /\ cmd \in {"GetKubeBlocksDeploy", "GetDataProtectionDeploy",
                "getKubeBlocksVersion"}
    /\ pc = "Call"
    /\ o = DefaultOptions
    /\ \E ds \in SUBSET {Deploy("kb1", "apps", "0.9.0"),
                          Deploy("kb2", "apps", ""),
                          Deploy("dp1", "dataprotection", "0.9.0"),
                          Deploy("dp2", "dataprotection", ""),
                          [name |-> "other", labels |-> {}]} :
          server = [EmptyServer EXCEPT !.deploys = ds]
    /\ env = DefaultEnv

\* a create command built as the example builds it, with any of the hooks
\* set (the example sets all three)
InitExample ==
    /\ cmd = "example"
    /\ pc = FirstStep(cmd)
    /\ \E hooks \in SUBSET Hooks :
          o = [DefaultOptions EXCEPT !.Args = <<"mysql-cluster1">>,
                                     !.hooks = hooks]
    /\ server = EmptyServer
    /\ env = DefaultEnv

\* the rows given with --set or returned by the editor
EditRows ==
    {<<>>,
     <<HASH, "note">>,
     <<KeyRepoName, EQ, "r1">>,
     <<SP, KeyRepoName, EQ, DQUOTE, "r2", DQUOTE>>,
     <<KeyRepoName, EQ>>,
     <<KeyRepoName, EQ, "r9">>,
     <<"schedule", EQ, "r1">>,
     <<KeyRepoName>>,
     <<KeyRepoName, EQ, "r1", COMMA, KeyRepoName, EQ, "r2">>}

EditServers ==
    {[EmptyServer EXCEPT !.repos = {"r1", "r2"},
                         !.policies = {[Policy("p1", "c1", TRUE) EXCEPT !.repo = r]}] :
        r \in {"", "r1", "r2"}}

InitEdit ==
    /\ cmd = "edit-backup-policy"
    /\ pc = "Complete"
    /\ server \in EditServers
    \* --set is a StringArrayVar: o.values holds each value given, whole
    /\ LET before == (CHOOSE p \in server.policies : TRUE).repo IN
       \/ \E rows \in SeqsUpTo(EditRows, MaxRows) \ {<<>>} :
            \/ o = [DefaultOptions EXCEPT !.Args = <<"p1">>, !.values = rows]
               /\ env = [DefaultEnv EXCEPT !.before = before]
            \/ o = [DefaultOptions EXCEPT !.Args = <<"p1">>]
               /\ env = [DefaultEnv EXCEPT !.edited = rows, !.before = before]
       \/ \E args \in {<<>>, <<"p1", "p2">>, <<"p9">>} :
            /\ o = [DefaultOptions EXCEPT !.Args = args]
            /\ env = [DefaultEnv EXCEPT !.before = before]
    /\ updates = <<>>
    /\ calls = <<>>
    /\ trace = <<>>
    /\ err = NoErr
    /\ out = <<>>

Init ==
    /\ updates = <<>>
    /\ calls = <<>>
    /\ trace = <<>>
    /\ err = NoErr
    /\ out = <<>>
    /\ \/ InitBackup
       \/ InitRestore
       \/ InitDescribeBackupPolicy
       \/ InitAccount
       \/ InitDeleteBackup
       \/ InitTerminate
       \/ InitExample
       \/ InitDescribeBackup
       \/ InitVersion
       \/ InitSMTP

\* ---------------------------------------------------------------- actions

\* backup: cmdutil.CheckErr(o.CompleteBackup())
CompleteBackup ==
    /\ cmd = "backup" /\ pc = "Complete"
    /\ \E ok \in BOOLEAN :
         LET r == CompleteBackupResult(o, [env EXCEPT !.kubeconfigOK = ok]) IN
         /\ o' = r.o
         /\ err' = r.err
         /\ trace' = trace \o r.events \o
                     <<Event("Complete", "CreateBackupOptions.CompleteBackup",
                             r.err = NoErr)>>
         /\ pc' = Checked(r.err, cmd, pc)
    /\ UNCHANGED <<updates, cmd, server, env, calls, out>>

\* backup: cmdutil.CheckErr(o.Validate())
BackupValidate ==
    /\ cmd = "backup" /\ pc = "Validate"
    /\ LET r == CreateBackupValidate(o, server) IN
         /\ o' = r.o
         /\ err' = r.err
         /\ calls' = calls \o r.calls
         /\ trace' = Append(trace, Event("Validate", "CreateBackupOptions.Validate",
                                         r.err = NoErr))
         /\ pc' = Checked(r.err, cmd, pc)
    /\ UNCHANGED <<updates, cmd, server, env, out>>

\* restore: util.CheckErr(o.Complete())
RestoreComplete ==
    /\ cmd = "restore" /\ pc = "Complete"
    /\ \E ok \in BOOLEAN :
         LET r == CreateOptionsComplete(o, [env EXCEPT !.kubeconfigOK = ok]) IN
         /\ o' = r.o
         /\ err' = r.err
         /\ trace' = Append(trace, GenericCompleteEvent(r))
         /\ pc' = Checked(r.err, cmd, pc)
    /\ UNCHANGED <<updates, cmd, server, env, calls, out>>

\* restore: util.CheckErr(o.Validate())
RestoreValidate ==
    /\ cmd = "restore" /\ pc = "Validate"
    /\ \E gen \in GenerateClusterNameResults :
         LET r == CreateRestoreValidate(o, gen) IN
         /\ o' = r.o
         /\ err' = r.err
         /\ calls' = calls \o r.calls
         /\ trace' = Append(trace, Event("Validate", "CreateRestoreOptions.Validate",
                                         r.err = NoErr))
         /\ pc' = Checked(r.err, cmd, pc)
    /\ UNCHANGED <<updates, cmd, server, env, out>>

\* backup, restore, example: cmdutil.CheckErr(o.Run())
CreateRun ==
    /\ cmd \in {"backup", "restore", "example"} /\ pc = "Run"
    /\ \E failing \in CreateFailures :
         LET r == CreateOptionsRun(o, failing) IN
         /\ err' = r.err
         /\ calls' = calls \o r.calls
         /\ trace' = Append(trace, Event("Run", "action.CreateOptions.Run",
                                         r.err = NoErr))
         /\ out' = out \o r.steps
         /\ pc' = Checked(r.err, cmd, pc)
    /\ UNCHANGED <<updates, cmd, o, server, env>>

\* describe-backup-policy: the closure up to util.CheckErr(o.Complete())
DescribeBackupPolicyCompleteStep ==
    /\ cmd = "describe-backup-policy" /\ pc = "Complete"
    /\ \E ok \in BOOLEAN :
         LET o0 == [o EXCEPT !.ClusterNames = o.Args,
                             !.LabelSelector =
                                 BuildLabelSelectorByNames(@, o.Args)]
             r == DescribeBackupPolicyComplete(o0, [env EXCEPT !.kubeconfigOK = ok])
         IN
         /\ o' = r.o
         /\ err' = r.err
         /\ trace' = Append(trace, Event("Complete",
                                         "DescribeBackupPolicyOptions.Complete",
                                         r.err = NoErr))
         /\ pc' = Checked(r.err, cmd, pc)
    /\ UNCHANGED <<updates, cmd, server, env, calls, out>>

\* describe-backup-policy: util.CheckErr(o.Validate())
DescribeBackupPolicyValidateStep ==
    /\ cmd = "describe-backup-policy" /\ pc = "Validate"
    /\ LET e == DescribeBackupPolicyValidate(o) IN
         /\ err' = e
         /\ trace' = Append(trace, Event("Validate",
                                         "DescribeBackupPolicyOptions.Validate",
                                         e = NoErr))
         /\ pc' = Checked(e, cmd, pc)
    /\ UNCHANGED <<updates, cmd, o, server, env, calls, out>>

\* describe-backup-policy: util.CheckErr(o.Run())
DescribeBackupPolicyRunStep ==
    /\ cmd = "describe-backup-policy" /\ pc = "Run"
    /\ \E items \in ListOrders({p \in server.policies :
                                   MatchesSelector(p, o.LabelSelector)}) :
         \/ /\ out' = out \o DescribeBackupPolicyRun(o, items)
            /\ err' = NoErr
            /\ trace' = Append(trace, Event("Run",
                                 "DescribeBackupPolicyOptions.Run", TRUE))
            /\ pc' = "Done"
         \/ /\ out' = out
            /\ err' = <<"list failed">>
            /\ trace' = Append(trace, Event("Run",
                                 "DescribeBackupPolicyOptions.Run", FALSE))
            /\ pc' = "Fatal"
    /\ calls' = Append(calls, Call("list", "BackupPolicy", o.LabelSelector, "Run"))
    /\ UNCHANGED <<updates, cmd, o, server, env>>

\* the account commands: cmdutil.CheckErr(o.Validate(args))
AccountValidate ==
    /\ cmd = "account" /\ pc = "Validate"
    /\ LET r == AccountValidateResult(o, o.Args) IN
         /\ o' = r.o
         /\ err' = r.err
         /\ trace' = Append(trace, Event("Validate", "AccountBaseOptions.Validate",
                                         r.err = NoErr))
         /\ pc' = Checked(r.err, cmd, pc)
    /\ UNCHANGED <<updates, cmd, server, env, calls, out>>

\* the account commands: cmdutil.CheckErr(o.Complete(f))
AccountComplete ==
    /\ cmd = "account" /\ pc = "Complete"
    /\ \E ok \in BOOLEAN :
         LET r == AccountBaseComplete(o, server, [env EXCEPT !.kubeconfigOK = ok]) IN
         /\ o' = r.o
         /\ err' = r.err
         /\ calls' = calls \o r.calls
         /\ trace' = Append(trace, Event("Complete", "AccountBaseOptions.Complete",
                                         r.err = NoErr))
         /\ pc' = Checked(r.err, cmd, pc)
    /\ UNCHANGED <<updates, cmd, server, env, out>>

\* the account commands: cmdutil.CheckErr(o.Run(cmd, f, streams)), the
\* account operation executed in the pod
AccountRun ==
    /\ cmd = "account" /\ pc = "Run"
    /\ \E ok \in BOOLEAN :
         /\ err' = IF ok THEN NoErr ELSE <<"operation failed">>
         /\ trace' = Append(trace, Event("Run", o.sub, ok))
         /\ pc' = Checked(err', cmd, pc)
    /\ calls' = Append(calls, Call("exec", "Pod", o.ExecPod.name, "Run"))
    /\ UNCHANGED <<updates, cmd, o, server, env, out>>

\* delete-backup: util.CheckErr(completeForDeleteBackup(o, args))
DeleteBackupComplete ==
    /\ cmd = "delete-backup" /\ pc = "Complete"
    /\ LET r == completeForDeleteBackup(o, o.Args) IN
         /\ o' = r.o
         /\ err' = r.err
         /\ trace' = Append(trace, Event("Complete", "completeForDeleteBackup",
                                         r.err = NoErr))
         /\ pc' = Checked(r.err, cmd, pc)
    /\ UNCHANGED <<updates, cmd, server, env, calls, out>>

\* delete-backup: util.CheckErr(o.Run())
DeleteBackupRun ==
    /\ cmd = "delete-backup" /\ pc = "Run"
    /\ LET r == DeleteOptionsRun(o, "Backup", server.backups) IN
         /\ err' = r.err
         /\ calls' = calls \o r.calls
         /\ server' = [server EXCEPT !.backups =
                          {b \in @ : b.name \notin r.deleted}]
         /\ trace' = Append(trace, Event("Run", "action.DeleteOptions.Run",
                                         r.err = NoErr))
         /\ pc' = Checked(r.err, cmd, pc)
    /\ UNCHANGED <<updates, cmd, o, env, out>>

\* terminate: IsMigrationCrdValidWithFactory and PrintCrdInvalidError, which
\* ends the process when the migration CRDs are missing
TerminateCheckCrd ==
    /\ cmd = "terminate" /\ pc = "CheckCrd"
    /\ \E valid \in BOOLEAN :
         /\ err' = IF valid THEN NoErr ELSE <<"migration crd is not installed">>
         /\ pc' = Checked(err', cmd, pc)
    /\ calls' = Append(calls, Call("list", "CustomResourceDefinition", "", "CheckCrd"))
    /\ UNCHANGED <<updates, cmd, o, server, env, trace, out>>

\* terminate: util.CheckErr(deleteMigrationTask(o, args))
TerminateDelete ==
    /\ cmd = "terminate" /\ pc = "Delete"
    /\ LET r == deleteMigrationTask(o, o.Args, server.tasks) IN
         /\ o' = r.o
         /\ err' = r.err
         /\ calls' = calls \o r.calls
         /\ server' = [server EXCEPT !.tasks = {t \in @ : t.name \notin r.deleted}]
         /\ trace' = trace
                     \o (IF r.ran
                         THEN <<Event("Run", "action.DeleteOptions.Run",
                                      r.err = NoErr)>>
                         ELSE <<>>)
                     \o <<Event("Delete", "deleteMigrationTask", r.err = NoErr)>>
         /\ pc' = Checked(r.err, cmd, pc)
    /\ UNCHANGED <<updates, cmd, env, out>>

\* example main: cmdutil.CheckErr(o.CreateOptions.Complete())
ExampleGenericComplete ==
    /\ cmd = "example" /\ pc = "GenericComplete"
    /\ \E ok \in BOOLEAN :
         LET r == CreateOptionsComplete(o, [env EXCEPT !.kubeconfigOK = ok]) IN
         /\ o' = r.o
         /\ err' = r.err
         /\ trace' = Append(trace, GenericCompleteEvent(r))
         /\ pc' = Checked(r.err, cmd, pc)
    /\ UNCHANGED <<updates, cmd, server, env, calls, out>>

\* example main: cmdutil.CheckErr(o.Complete()), the cluster command's own
\* Complete, and cmdutil.CheckErr(o.Validate())
ExampleStep ==
    /\ cmd = "example" /\ pc \in {"Complete", "Validate"}
    /\ \E ok \in BOOLEAN :
         /\ err' = IF ok THEN NoErr ELSE <<"invalid cluster options">>
         /\ trace' = Append(trace, Event(pc, "cluster.CreateOptions." \o pc, ok))
         /\ pc' = Checked(err', cmd, pc)
    /\ o' = IF pc = "Validate" THEN [o EXCEPT !.OpsRequestName = Text(o.Name)] ELSE o
    /\ UNCHANGED <<updates, cmd, server, env, calls, out>>

\* describe-backup: util.CheckErr(o.Complete(args))
DescribeBackupCompleteStep ==
    /\ cmd = "describe-backup" /\ pc = "Complete"
    /\ \E ok \in BOOLEAN :
         LET r == DescribeBackupComplete(o, o.Args,
                                         [env EXCEPT !.kubeconfigOK = ok]) IN
         /\ o' = r.o
         /\ err' = r.err
         /\ trace' = Append(trace, Event("Complete", "DescribeBackupOptions.Complete",
                                         r.err = NoErr))
         /\ pc' = Checked(r.err, cmd, pc)
    /\ UNCHANGED <<updates, cmd, server, env, calls, out>>

\* GetKubeBlocksDeploy(client)
GetKubeBlocksDeployStep ==
    /\ cmd = "GetKubeBlocksDeploy" /\ pc = "Call"
    /\ \E listOK \in BOOLEAN :
         LET r == GetKubeBlocksDeploy(server.deploys, listOK) IN
         /\ out' = <<[deploy |-> r.deploy, version |-> ""]>>
         /\ err' = r.err
         /\ trace' = Append(trace, Event("Call", cmd, r.err = NoErr))
    /\ calls' = Append(calls, Call("list", "Deployment", "apps", cmd))
    /\ pc' = "Done"
    /\ UNCHANGED <<updates, cmd, o, server, env>>

\* GetDataProtectionDeploy(client)
GetDataProtectionDeployStep ==
    /\ cmd = "GetDataProtectionDeploy" /\ pc = "Call"
    /\ \E listOK \in BOOLEAN :
         LET r == GetDataProtectionDeploy(server.deploys, listOK) IN
         /\ out' = <<[deploy |-> r.deploy, version |-> ""]>>
         /\ err' = r.err
         /\ trace' = Append(trace, Event("Call", cmd, r.err = NoErr))
    /\ calls' = Append(calls, Call("list", "Deployment", "dataprotection", cmd))
    /\ pc' = "Done"
    /\ UNCHANGED <<updates, cmd, o, server, env>>

\* getKubeBlocksVersion(client)
getKubeBlocksVersionStep ==
    /\ cmd = "getKubeBlocksVersion" /\ pc = "Call"
    /\ \E listOK \in BOOLEAN :
         LET r == getKubeBlocksVersion(server.deploys, listOK) IN
         /\ out' = <<[deploy |-> r.deploy, version |-> r.version]>>
         /\ err' = r.err
         /\ trace' = Append(trace, Event("Call", cmd, r.err = NoErr))
    /\ calls' = Append(calls, Call("list", "Deployment", "apps", cmd))
    /\ pc' = "Done"
    /\ UNCHANGED <<updates, cmd, o, server, env>>

\* config-smtpserver: o.validate()
SMTPValidateStep ==
    /\ cmd = "config-smtpserver" /\ pc = "validate"
    /\ LET e == configSMTPServerValidate(o) IN
         /\ err' = e
         /\ trace' = Append(trace, Event("validate",
                                         "configSMTPServerOptions.validate",
                                         e = NoErr))
         /\ pc' = CheckErr(e, "run")
    /\ UNCHANGED <<updates, cmd, o, server, env, calls, out>>

\* config-smtpserver: o.run(), which writes the alert manager's ConfigMap
SMTPRunStep ==
    /\ cmd = "config-smtpserver" /\ pc = "run"
    /\ \E ok \in BOOLEAN :
         /\ err' = IF ok THEN NoErr ELSE <<"update rejected">>
         /\ trace' = Append(trace, Event("run", "configSMTPServerOptions.run", ok))
         /\ pc' = CheckErr(err', "Done")
    /\ calls' = Append(calls, Call("update", "ConfigMap", "alertmanager-config", "run"))
    /\ UNCHANGED <<updates, cmd, o, server, env, out>>

\* describe-backup: util.CheckErr(o.Run())
DescribeBackupRunStep ==
    /\ cmd = "describe-backup" /\ pc = "Run"
    /\ \E jobs \in JobAnswers :
         LET r == DescribeBackupRun(o, server, env.eventsFail, jobs) IN
         /\ err' = r.err
         /\ calls' = calls \o r.calls
         /\ out' = out \o r.out
         /\ trace' = Append(trace, Event("Run", "DescribeBackupOptions.Run",
                                         r.err = NoErr))
         /\ pc' = Checked(r.err, cmd, pc)
    /\ UNCHANGED <<updates, cmd, o, server, env>>

Next ==
    \/ CompleteBackup
    \/ BackupValidate
    \/ RestoreComplete
    \/ RestoreValidate
    \/ CreateRun
    \/ DescribeBackupPolicyCompleteStep
    \/ DescribeBackupPolicyValidateStep
    \/ DescribeBackupPolicyRunStep
    \/ AccountValidate
    \/ AccountComplete
    \/ AccountRun
    \/ DeleteBackupComplete
    \/ DeleteBackupRun
    \/ TerminateCheckCrd
    \/ TerminateDelete
    \/ ExampleGenericComplete
    \/ ExampleStep
    \/ DescribeBackupCompleteStep
    \/ DescribeBackupRunStep
    \/ GetKubeBlocksDeployStep
    \/ GetDataProtectionDeployStep
    \/ getKubeBlocksVersionStep
    \/ SMTPValidateStep
    \/ SMTPRunStep

Spec == Init /\ [][Next]_vars

\* edit-backup-policy: cmdutil.CheckErr(o.complete(args))
EditComplete ==
    /\ cmd = "edit-backup-policy" /\ pc = "Complete"
    /\ \E ok \in BOOLEAN :
         LET r == editComplete(o, o.Args, [env EXCEPT !.kubeconfigOK = ok]) IN
         /\ o' = r.o
         /\ err' = r.err
         /\ trace' = Append(trace, Event("Complete", "editBackupPolicyOptions.complete",
                                         r.err = NoErr))
         /\ pc' = CheckErr(r.err, "Run")
    /\ UNCHANGED <<updates, cmd, server, env, calls, out>>

\* edit-backup-policy: cmdutil.CheckErr(o.runEditBackupPolicy())
EditRun ==
    /\ cmd = "edit-backup-policy" /\ pc = "Run"
    /\ \E editorOK \in BOOLEAN, updateOK \in BOOLEAN :
         LET r == runEditBackupPolicy(o, server, env.edited, editorOK, updateOK) IN
         /\ o' = r.o
         /\ err' = r.err
         /\ calls' = calls \o r.calls
         /\ updates' = r.updates
         /\ out' = out \o r.out
         /\ server' = IF r.written
                      THEN [server EXCEPT !.policies =
                               {p \in @ : p.name # r.policy.name} \cup {r.policy}]
                      ELSE server
         /\ trace' = Append(trace, Event("Run", "runEditBackupPolicy", r.err = NoErr))
         /\ pc' = CheckErr(r.err, "Done")
    /\ UNCHANGED <<cmd, env>>

NextEdit ==
    \/ EditComplete
    \/ EditRun

SpecEdit == InitEdit /\ [][NextEdit]_vars

\* ------------------------------------------------------------ list commands
\* The listed objects are those of one namespace; converting a returned
\* object to its typed form succeeds.
JSON == "json"
YAML == "yaml"
Table == "table"

DefaultListOptions ==
    [Args |-> <<>>, Names |-> <<>>, LabelSelector |-> <<>>, BackupName |-> "",
     Format |-> Table, Namespace |-> ""]

ItemNames == {"b1", "b2", "b3", "b4"}

\* the cluster a listed object is labelled with
ClusterOf(name) == IF name \in {"b1", "b2"} THEN "c1" ELSE "c2"

Item(name, ts) == [name |-> name, cluster |-> ClusterOf(name), ts |-> ts]

\* what the API server may hold of one kind
StoredItems ==
    UNION {{{Item(n, f[n]) : n \in N} : f \in [N -> 1..MaxTime]} :
             N \in {M \in SUBSET ItemNames : Cardinality(M) <= MaxItems}}

\* the answer to a List: the objects that match the selector (and, for a
\* request by names, the names), in any order
Answers(stored, selector, names) ==
    ListOrders({x \in stored :
                  /\ MatchesSelector(x, selector)
                  /\ Len(names) > 0 => x.name \in Range(names)})

\* action.ListOptions.Complete: the namespace from the ambient configuration
ListOptionsComplete(opt, ok) ==
    IF ~ok
    THEN [err |-> <<"invalid configuration">>, o |-> opt]
    ELSE [err |-> NoErr, o |-> [opt EXCEPT !.Namespace = DefaultNamespace]]

\* the list-backups closure up to its Complete
listBackupsArgs(opt) ==
    LET o1 == [opt EXCEPT !.LabelSelector =
                              BuildLabelSelectorByNames(@, opt.Args)]
    IN IF o1.BackupName # ""
       THEN [o1 EXCEPT !.Names = <<o1.BackupName>>]
       ELSE o1

\* the list-backup-policy closure up to its Complete
listBackupPolicyArgs(opt) ==
    [opt EXCEPT !.LabelSelector = BuildLabelSelectorByNames(@, opt.Args),
                !.Names = <<>>]

\* a printer that takes no format for JSON or YAML
NeverStructured(format) == FALSE

\* o.Format == printer.JSON || o.Format == printer.YAML
IsStructured(format) == format \in {JSON, YAML}

\* a row filter that lets every object through
keepEveryRow(names, nameMap, name) == TRUE

\* the negation of: len(o.Names) > 0 && !nameMap[name]
keepRow(names, nameMap, name) == ~(Len(names) > 0 /\ name \notin nameMap)

\* a sort that leaves the list as it was
SortLeavesOrder(items) == {items}

\* sort.Sort(unstructuredList(items)): creationTimestamp in positive order;
\* sort.Sort is not stable, equal timestamps end in any order
SortUnstructuredList(items) ==
    {s \in ListOrders(Range(items)) :
        \A i, j \in 1..Len(s) : i < j => s[i].ts <= s[j].ts}

\* the names a list command sends with its request: the generic Run gets
\* the objects by name, the dynamic List of the table mode takes none
BackupRequestNames(opt) ==
    IF IsStructured(opt.Format)
    THEN IF opt.BackupName # "" THEN <<opt.BackupName>> ELSE opt.Names
    ELSE <<>>

BackupPolicyRequestNames(opt) ==
    IF IsStructured(opt.Format) THEN opt.Names ELSE <<>>

\* action.ListOptions.Run: lists with the selector and the names and prints
\* the answer as it came, in the format asked for
ListOptionsRun(opt, kind, answer, ok) ==
    LET call == Call("list", kind, opt.LabelSelector, "ListOptions.Run") IN
    IF ~ok
    THEN [err |-> <<"list failed">>, calls |-> <<call>>, out |-> <<>>,
          events |-> <<Event("Run", "action.ListOptions.Run", FALSE)>>,
          listed |-> FALSE]
    ELSE [err |-> NoErr, calls |-> <<call>>,
          out |-> <<[kind |-> "raw", rows |-> answer]>>,
          events |-> <<Event("Run", "action.ListOptions.Run", TRUE)>>,
          listed |-> TRUE]

\* the table mode of both printers after the format check
PrintTable(opt, kind, by, nameMap, answer, rows, clientOK, listOK) ==
    LET call == Call("list", kind, opt.LabelSelector, by) IN
    IF ~clientOK
    THEN [err |-> <<"invalid configuration">>, calls |-> <<>>, out |-> <<>>,
          events |-> <<>>, listed |-> FALSE]
    ELSE IF ~listOK
    THEN [err |-> <<"list failed">>, calls |-> <<call>>, out |-> <<>>,
          events |-> <<>>, listed |-> FALSE]
    ELSE IF Len(answer) = 0
    THEN [err |-> NoErr, calls |-> <<call>>,
          out |-> <<[kind |-> "not found", rows |-> <<>>]>>,
          events |-> <<>>, listed |-> TRUE]
    ELSE
      LET keep(x) == keepRow(opt.Names, nameMap, x.name) IN
      [err |-> NoErr, calls |-> <<call>>,
       out |-> <<[kind |-> "table", rows |-> SelectSeq(rows, keep)]>>,
       events |-> <<>>, listed |-> TRUE]

\* PrintBackupList; sorted is what sort.Sort made of the answer
PrintBackupList(opt, answer, sorted, clientOK, listOK) ==
    LET backupNameMap == Range(opt.Names) IN
    IF IsStructured(opt.Format)
    THEN LET o1 == IF opt.BackupName # ""
                   THEN [opt EXCEPT !.Names = <<opt.BackupName>>]
                   ELSE opt
         IN ListOptionsRun(o1, "Backup", answer, clientOK /\ listOK)
    ELSE PrintTable(opt, "Backup", "PrintBackupList", backupNameMap, answer,
                    sorted, clientOK, listOK)

\* PrintBackupPolicyList
PrintBackupPolicyList(opt, answer, clientOK, listOK) ==
    LET backupPolicyNameMap == Range(opt.Names) IN
    IF IsStructured(opt.Format)
    THEN ListOptionsRun(opt, "BackupPolicy", answer, clientOK /\ listOK)
    ELSE PrintTable(opt, "BackupPolicy", "PrintBackupPolicyList",
                    backupPolicyNameMap, answer, answer, clientOK, listOK)

BackupListers == {"list-backups", "PrintBackupList"}
BackupPolicyListers == {"list-backup-policy", "PrintBackupPolicyList"}

ListArgs == {<<>>, <<"c1">>}
ListFormats == {Table, JSON, YAML}
IncludeNames == {<<>>, <<"b1">>, <<"b2", "b3">>}

InitList ==
    /\ \E stored \in StoredItems :
         \/ /\ cmd \in BackupListers
            /\ server = [EmptyServer EXCEPT !.backups = stored]
         \/ /\ cmd \in BackupPolicyListers
            /\ server = [EmptyServer EXCEPT !.policies = stored]
    /\ \E args \in ListArgs, format \in ListFormats, name \in {"", "b1"},
          names \in IncludeNames :
         \/ /\ cmd = "list-backups"
            /\ pc = "Complete"
            /\ o = [DefaultListOptions EXCEPT !.Args = args, !.Format = format,
                                              !.BackupName = name]
         \/ /\ cmd = "list-backup-policy"
            /\ pc = "Complete"
            /\ o = [DefaultListOptions EXCEPT !.Args = args, !.Format = format]
         \/ /\ cmd = "PrintBackupList"
            /\ pc = "Print"
            /\ o = [DefaultListOptions EXCEPT !.Names = names, !.Format = format,
                                              !.BackupName = name]
         \/ /\ cmd = "PrintBackupPolicyList"
            /\ pc = "Print"
            /\ o = [DefaultListOptions EXCEPT !.Names = names, !.Format = format]
    /\ env = DefaultEnv
    /\ updates = <<>>
    /\ calls = <<>>
    /\ trace = <<>>
    /\ err = NoErr
    /\ out = <<>>

\* list-backups, list-backup-policy: the closure up to util.CheckErr(o.Complete())
ListComplete ==
    /\ cmd \in {"list-backups", "list-backup-policy"} /\ pc = "Complete"
    /\ \E ok \in BOOLEAN :
         LET o1 == IF cmd = "list-backups"
                   THEN listBackupsArgs(o)
                   ELSE listBackupPolicyArgs(o)
             r == ListOptionsComplete(o1, ok)
         IN
         /\ o' = r.o
         /\ err' = r.err
         /\ trace' = Append(trace, Event("Complete", "action.ListOptions.Complete",
                                         r.err = NoErr))
         /\ pc' = CheckErr(r.err, "Print")
    /\ UNCHANGED <<updates, cmd, server, env, calls, out>>

ListFinish(r, fn, answer) ==
    /\ err' = r.err
    /\ calls' = calls \o r.calls
    /\ out' = out \o r.out
    /\ env' = IF r.listed THEN [env EXCEPT !.returned = answer] ELSE env
    /\ trace' = trace \o r.events \o <<Event("Print", fn, r.err = NoErr)>>
    /\ pc' = CheckErr(r.err, "Done")
    /\ UNCHANGED <<updates, cmd, o, server>>

\* util.CheckErr(PrintBackupList(*o)), or a call of PrintBackupList
PrintBackupListStep ==
    /\ cmd \in BackupListers /\ pc = "Print"
    /\ \E clientOK \in BOOLEAN, listOK \in BOOLEAN :
       \E answer \in Answers(server.backups, o.LabelSelector,
                             BackupRequestNames(o)) :
       \E sorted \in SortUnstructuredList(answer) :
         ListFinish(PrintBackupList(o, answer, sorted, clientOK, listOK),
                    "PrintBackupList", answer)

\* util.CheckErr(PrintBackupPolicyList(*o)), or a call of PrintBackupPolicyList
PrintBackupPolicyListStep ==
    /\ cmd \in BackupPolicyListers /\ pc = "Print"
    /\ \E clientOK \in BOOLEAN, listOK \in BOOLEAN :
       \E answer \in Answers(server.policies, o.LabelSelector,
                             BackupPolicyRequestNames(o)) :
         ListFinish(PrintBackupPolicyList(o, answer, clientOK, listOK),
                    "PrintBackupPolicyList", answer)

NextList ==
    \/ ListComplete
    \/ PrintBackupListStep
    \/ PrintBackupPolicyListStep

SpecList == InitList /\ [][NextList]_vars

\* ------------------------------------------------------------ the claims
Finished == pc \in {"Done", "Fatal"}

Invoked(op) == \E i \in 1..Len(trace) : trace[i].op = op

Failed(op) == \E i \in 1..Len(trace) : trace[i].op = op /\ ~trace[i].ok

WriteCalls == {i \in 1..Len(calls) : calls[i].verb \in WriteVerbs}

\* C1: delete-backup and migration terminate, given no resource name (no
\* --name for delete-backup, no argument for terminate) and no --force, end
\* with an error in the completion step; DeleteOptions.Run is never reached
\* and no delete request is sent.
NoExplicitName ==
    \/ cmd = "delete-backup" /\ Len(o.Names) = 0
    \/ cmd = "terminate" /\ Len(o.Args) = 0

C1_NoNameNoForceNeverRuns ==
    (NoExplicitName /\ ~o.Force) =>
        /\ ~Invoked("Run")
        /\ pc \notin {"Run", "Done"}
        /\ \A i \in 1..Len(calls) : calls[i].verb # "delete"
        /\ server = DeleteServer
        /\ Finished => pc = "Fatal" /\ err # NoErr

C1_Witness ==
    /\ cmd = "delete-backup" /\ Len(o.Names) = 0 /\ ~o.Force
    /\ Len(o.Args) = 1
    /\ pc = "Fatal"
    /\ err = <<"Missing --name as backup name.">>


\* C2 (as claimed): in the backup command, a --parent-backup that exists and
\* is not Completed makes Validate return an error that contains the parent
\* backup's name, and Run is not reached.
ParentNotCompleted ==
    /\ cmd = "backup"
    /\ o.ParentBackupName # ""
    /\ \E b \in server.backups :
          b.name = o.ParentBackupName /\ b.phase # "Completed"

C2_ParentErrorAlwaysNamesParent ==
    (ParentNotCompleted /\ Invoked("Validate")) =>
        /\ Failed("Validate")
        /\ Contains(err, o.ParentBackupName)
        /\ ~Invoked("Run")

\* Validate gets as far as its parent backup check: the cluster name is set,
\* the backup policy is resolved and exists, the method is set and the
\* retention period, when given, is valid.
ReachesParentCheck ==
    /\ o.Name # ""
    /\ \E p \in server.policies : p.name = o.BackupPolicyName
    /\ o.BackupMethod # ""
    /\ o.RetentionPeriod \in {""} \cup ValidRetentionPeriods

\* C2 (amended): in the backup command, a --parent-backup that exists and is
\* not Completed makes Validate return an error and Run is not reached; the
\* error contains the parent backup's name whenever Validate got as far as
\* the parent backup check.
C2_ParentNotCompletedRejected ==
    (ParentNotCompleted /\ Invoked("Validate")) =>
        /\ Failed("Validate")
        /\ pc = "Fatal"
        /\ ~Invoked("Run")
        /\ WriteCalls = {}
        /\ ReachesParentCheck =>
              err = <<"parent backup", o.ParentBackupName, "is not completed">>

C2_Witness ==
    /\ ParentNotCompleted
    /\ ReachesParentCheck
    /\ Failed("Validate")
    /\ Contains(err, o.ParentBackupName)
    /\ calls[Len(calls)] = Call("get", "Backup", o.ParentBackupName, "Validate")

\* C3 (as claimed): in every command, Validate is not invoked before Complete
\* was invoked and returned without error.
ValidateAfterComplete ==
    \A i \in 1..Len(trace) :
        trace[i].op = "Validate" =>
            \E j \in 1..(i - 1) : trace[j].op = "Complete" /\ trace[j].ok

C4_FailedValidateSendsNoWrite ==
    (cmd \in {"backup", "restore"} /\ Failed("Validate")) =>
        /\ ~Invoked("Run")
        /\ pc = "Fatal"
        /\ \A i \in 1..Len(calls) : calls[i].verb \in ReadVerbs

C4_Witness ==
    /\ cmd = "backup"
    /\ Failed("Validate")
    /\ Len(calls) = 4
    /\ pc = "Fatal"

\* C10: in one invocation of a create command (backup, the cluster-create
\* examples), action.CreateOptions.Complete has been called exactly once
\* when Validate is called.
GenericCompletesBefore(i) ==
    Cardinality({j \in 1..(i - 1) :
                    trace[j].fn = "action.CreateOptions.Complete"})

C10_GenericCompleteOnce ==
    cmd \in {"backup", "example"} =>
        \A i \in 1..Len(trace) :
            trace[i].op = "Validate" => GenericCompletesBefore(i) = 1


\* the rows of EditRows by what they are
SkippedRows == {<<>>, <<HASH, "note">>}
MalformedRows ==
    {<<KeyRepoName>>, <<KeyRepoName, EQ, "r1", COMMA, KeyRepoName, EQ, "r2">>}
UnknownKeyRows == {<<"schedule", EQ, "r1">>}
FailingUpdateRows == {<<KeyRepoName, EQ, "r9">>}

\* the first index of rows whose row is in S, 0 when there is none
FirstIn(rows, S) ==
    IF \E i \in 1..Len(rows) : rows[i] \in S
    THEN CHOOSE i \in 1..Len(rows) :
            rows[i] \in S /\ \A j \in 1..(i - 1) : rows[j] \notin S
    ELSE 0

\* the indices of a set in ascending order
Ascending(S) ==
    CHOOSE s \in [1..Cardinality(S) -> S] :
        \A i, j \in 1..Cardinality(S) : i < j => s[i] < s[j]

Updated == \E i \in 1..Len(calls) : calls[i].verb = "update"

\* the text of the policy's values as they were before the edit
CurrentValuesText ==
    IF env.before = "" THEN <<>> ELSE <<KeyRepoName, EQ, env.before>>

\* C5: edit-backup-policy, with the editor or with --set, sends the Update
\* only if the text of the edited key=value rows differs from the text of the
\* current values; when the two are equal it sends no write request and
\* prints "updated (no change)".
C5_UpdateOnlyIfTextDiffers ==
    (cmd = "edit-backup-policy" /\ Invoked("Run")) =>
        /\ Updated => o.target # CurrentValuesText
        /\ (err = NoErr /\ o.target = CurrentValuesText) =>
              WriteCalls = {} /\ out = <<"updated (no change)">>

\* C6 (as claimed): applyChanges stops at the first row with an unknown key:
\* it returns an error, and the update functions were called exactly for the
\* well-formed, known-key rows before that row, in order, and for no later one.
C6_StopsAtFirstUnknownKey ==
    LET u == FirstIn(o.values, UnknownKeyRows) IN
    (cmd = "edit-backup-policy" /\ Invoked("Run") /\ u # 0) =>
        /\ err # NoErr
        /\ updates = Ascending({i \in 1..(u - 1) :
                         o.values[i] \notin SkippedRows \cup MalformedRows})

\* C6 (amended): applyChanges stops at the first row that is malformed, has
\* an unknown key, or whose update function fails: it returns an error, no
\* update function is called for a later row, and the update functions were
\* called exactly for the rows before it that are not blank or comments, in
\* order (and for the stopping row itself when it is its update function that
\* fails); stopping at an unknown key, the error is the invalid-key error.
C6_StopsAtFirstFailingRow ==
    LET f == FirstIn(o.values,
                     UnknownKeyRows \cup MalformedRows \cup FailingUpdateRows)
    IN
    (cmd = "edit-backup-policy" /\ Invoked("Run") /\ f # 0) =>
        /\ err # NoErr
        /\ ~Updated
        /\ updates = Ascending({i \in 1..(f - 1) : o.values[i] \notin SkippedRows}
                        \cup (IF o.values[f] \in FailingUpdateRows THEN {f} ELSE {}))
        /\ o.values[f] \in UnknownKeyRows => err = <<"invalid key", "schedule">>

C6_Witness ==
    /\ cmd = "edit-backup-policy" /\ Invoked("Run")
    /\ Len(o.values) = 3
    /\ o.values[1] = <<KeyRepoName, EQ, "r1">>
    /\ o.values[2] \in UnknownKeyRows
    /\ o.values[3] = <<KeyRepoName, EQ>>
    /\ updates = <<1>>
    /\ err = <<"invalid key", "schedule">>

TableMode == o.Format \notin {"json", "yaml"}

Increasing(rows) ==
    \A i, j \in 1..Len(rows) : i < j => rows[i].ts <= rows[j].ts

\* C7: list-backups in table mode prints its rows in ascending order of the
\* backups' creation timestamps, whatever order the API server answered in.
C7_TableRowsOldestFirst ==
    (cmd \in BackupListers /\ TableMode /\ Invoked("Print")) =>
        \A k \in 1..Len(out) : Increasing(out[k].rows)

C7_Witness ==
    /\ cmd = "list-backups" /\ TableMode /\ Invoked("Print")
    /\ Len(env.returned) = 3
    /\ env.returned[1].ts > env.returned[3].ts
    /\ Len(out) = 1 /\ out[1].kind = "table"
    /\ Len(out[1].rows) = 3
    /\ out[1].rows # env.returned

\* C8: in table mode, with a non-empty include-name set a row is printed for
\* a returned object if and only if its name is in the set, and with an
\* empty set a row is printed for every returned object; each object has at
\* most one row.
C8_RowIffNameIncluded ==
    (/\ cmd \in BackupListers \cup BackupPolicyListers
     /\ TableMode /\ Invoked("Print") /\ err = NoErr
     /\ Len(env.returned) > 0) =>
        /\ Len(out) = 1 /\ out[1].kind = "table"
        /\ Len(out[1].rows) = Cardinality(Range(out[1].rows))
        /\ Range(out[1].rows) \subseteq Range(env.returned)
        /\ \A x \in Range(env.returned) :
              x \in Range(out[1].rows) <=>
                  (o.Names = <<>> \/ \E i \in 1..Len(o.Names) : o.Names[i] = x.name)

C8_Witness ==
    /\ cmd = "list-backups" /\ TableMode /\ Invoked("Print")
    /\ o.BackupName = "b1" /\ o.Names = <<"b1">>
    /\ Len(env.returned) = 3
    /\ Len(out) = 1 /\ out[1].kind = "table"
    /\ Len(out[1].rows) = 1 /\ out[1].rows[1].name = "b1"

\* C9: with the format JSON or YAML, PrintBackupList and PrintBackupPolicyList
\* delegate to the generic list Run and return its error: no table, no sort,
\* no row filter and no List call of their own, the output is the list as
\* the generic Run got it.
C9_StructuredDelegatesToRun ==
    (/\ cmd \in BackupListers \cup BackupPolicyListers
     /\ ~TableMode /\ Invoked("Print")) =>
        /\ Invoked("Run")
        /\ Failed("Print") <=> Failed("Run")
        /\ \A i \in 1..Len(calls) : calls[i].by = "ListOptions.Run"
        /\ \A k \in 1..Len(out) : out[k].kind = "raw"
        /\ err = NoErr => out = <<[kind |-> "raw", rows |-> env.returned]>>

C9_Witness ==
    /\ cmd = "PrintBackupList" /\ o.Format = "yaml" /\ Invoked("Print")
    /\ Len(calls) = 1 /\ calls[1].by = "ListOptions.Run"
    /\ Len(env.returned) = 3
    /\ env.returned[1].ts > env.returned[2].ts
    /\ out = <<[kind |-> "raw", rows |-> env.returned]>>

ValidatingCommands ==
    {"backup", "restore", "account", "describe-backup-policy"}

\* the account commands whose Validate is AccountBaseOptions.Validate alone
BaseValidateOnly == cmd = "account" /\ o.sub # "revoke-role"

CreateCommands == {"backup", "restore", "example"}

\* the positions of a step in what a create run did
StepsOf(step) == {i \in 1..Len(out) : out[i] = step}

\* C12: in the generic create flow the hooks that are set are invoked in a
\* fixed order: CreateDependencies before PreCreate and before the object is
\* submitted, CleanUp only after a submission that was attempted and failed,
\* never on success and never before a submission attempt; a hook that is
\* not set is not invoked, and a set CreateDependencies or PreCreate has been
\* invoked once the object is submitted.
C12_HookOrder ==
    (cmd \in CreateCommands /\ Invoked("Run")) =>
        /\ \A h \in Hooks : /\ Cardinality(StepsOf(h)) <= 1
                            /\ h \notin o.hooks => StepsOf(h) = {}
        /\ Cardinality(StepsOf("submit")) <= 1
        /\ \A i \in StepsOf("CreateDependencies") :
              \A j \in StepsOf("PreCreate") \cup StepsOf("submit") : i < j
        /\ \A i \in StepsOf("PreCreate") : \A j \in StepsOf("submit") : i < j
        /\ \A i \in StepsOf("CleanUp") :
              /\ Failed("Run")
              /\ \E j \in StepsOf("submit") : j < i
        /\ StepsOf("submit") # {} =>
              \A h \in o.hooks \ {"CleanUp"} : StepsOf(h) # {}
        /\ (StepsOf("submit") # {}) <=>
              (\E i \in 1..Len(calls) : calls[i].verb = "create")

C12_Witness ==
    /\ cmd = "example" /\ Failed("Run") /\ o.hooks = Hooks
    /\ out = <<"CreateDependencies", "PreCreate", "submit", "CleanUp">>

\* C13: after CompleteBackup succeeds, a backup name that was not given is
\* backup-<namespace>-<cluster>-<timestamp> with the resolved namespace and
\* the cluster name, a given backup name is kept; in both cases
\* OpsRequestName is the backup name, ClusterRef the cluster name and
\* OpsType the backup type.
C13_CompleteBackupNames ==
    [][(cmd = "backup" /\ pc = "Complete" /\ err' = NoErr) =>
          /\ o.BackupName = <<>> =>
                o'.BackupName = <<"backup", "-">> \o Text(o'.Namespace)
                                \o <<"-">> \o Text(o'.Name)
                                \o <<"-", Timestamp>>
          /\ o.BackupName # <<>> => o'.BackupName = o.BackupName
          /\ o'.Namespace = DefaultNamespace
          /\ o'.Name = (IF Len(o.Args) > 0 THEN o.Args[1] ELSE "")
          /\ o'.OpsRequestName = o'.BackupName
          /\ o'.ClusterRef = o'.Name
          /\ o'.OpsType = "Backup"]_vars

C13_Witness ==
    /\ cmd = "backup" /\ pc = "Validate" /\ err = NoErr
    /\ o.BackupName = <<"backup", "-", "default", "-", "c1", "-", Timestamp>>
    /\ o.OpsRequestName = o.BackupName
    /\ o.ClusterRef = "c1" /\ o.OpsType = "Backup"

\* C14: AccountBaseOptions.Validate returns nil if and only if exactly one of
\* a single positional cluster name and --instance is given and --component
\* is not combined with --instance; otherwise it returns errClusterNameNum
\* for more than one positional argument, else errCompNameOrInstName when
\* --instance and --component are both set, else errClusterNameorInstName
\* when --instance comes with a cluster name or when neither is given.
C14_AccountValidateErrors ==
    [][(BaseValidateOnly /\ pc = "Validate") =>
          LET n == Len(o.Args)
              instance == o.PodName # ""
              component == o.ComponentName # ""
          IN
          /\ err' = NoErr <=>
                /\ n <= 1
                /\ (n = 1) # instance
                /\ ~(component /\ instance)
          /\ n > 1 => err' = <<"please specify ONE cluster-name at a time">>
          /\ (n <= 1 /\ instance /\ component) =>
                err' = <<"please specify either --component or --instance, they are exclusive">>
          /\ (n = 1 /\ instance /\ ~component) =>
                err' = <<"specify either cluster name or --instance">>
          /\ (n = 0 /\ ~instance) =>
                err' = <<"specify either cluster name or --instance">>]_vars

C14_Witness ==
    /\ BaseValidateOnly /\ Failed("Validate") /\ pc = "Fatal"
    /\ Len(o.Args) = 1 /\ o.PodName = "pod-0" /\ o.ComponentName = "mysql"
    /\ err = errCompNameOrInstName

\* C15: the revoke-role validation reports its errors in a fixed precedence:
\* the cluster-name/instance error first, then errMissingUserName for an
\* empty user name, then errMissingRoleName for an empty role name, then
\* errInvalidRoleName for a role that is not superuser, readwrite or
\* readonly; with a cluster name, a user name and one of these roles it
\* succeeds.
C15_RevokeValidatePrecedence ==
    [][(cmd = "account" /\ o.sub = "revoke-role" /\ pc = "Validate") =>
          LET n == Len(o.Args)
              instance == o.PodName # ""
              component == o.ComponentName # ""
              baseOK == n <= 1 /\ (n = 1) # instance /\ ~(component /\ instance)
              roles == {"superuser", "readwrite", "readonly"}
          IN
          /\ ((n = 0 /\ ~instance) \/ (n = 1 /\ instance /\ ~component)) =>
                err' = <<"specify either cluster name or --instance">>
          /\ ~baseOK => err' \in {errClusterNameNum, errCompNameOrInstName,
                                  errClusterNameorInstName}
          /\ (baseOK /\ o.userName = "") => err' = <<"please specify username">>
          /\ (baseOK /\ o.userName # "" /\ o.roleName = "") =>
                err' = <<"please specify at least ONE role name">>
          /\ (baseOK /\ o.userName # "" /\ o.roleName # ""
                /\ o.roleName \notin roles) =>
                err' = <<"invalid role name, should be one of [SUPERUSER, READWRITE, READONLY] ">>
          /\ (baseOK /\ o.userName # "" /\ o.roleName \in roles) =>
                err' = NoErr]_vars

C15_Witness ==
    /\ cmd = "account" /\ o.sub = "revoke-role" /\ Failed("Validate")
    /\ o.Args = <<"c1">> /\ o.PodName = ""
    /\ o.userName = "" /\ o.roleName = "bar"
    /\ err = errMissingUserName

CompleteReturnedNil ==
    cmd = "account" /\ Invoked("Complete") /\ ~Failed("Complete")

\* the part of C16 that holds as claimed: namespace and clients set, the pod
\* got by its name, the same pod handed to ExecOptions, and without
\* --instance a pod inferred from the cluster's component
CompleteSetsPod ==
    /\ o.Namespace = DefaultNamespace /\ o.Client /\ o.Dynamic
    /\ o.Pod # NoPod /\ o.Pod \in server.pods
    /\ o.Pod.name = o.PodName
    /\ o.ExecPod = o.Pod
    /\ o.Args # <<>> =>
          /\ o.ClusterName = o.Args[1]
          /\ o.Pod.cluster = o.ClusterName
          /\ o.Pod.component = o.ComponentName

FailingNames ==
    (DescribeNames \ {b.name : b \in server.backups}) \cup env.eventsFail

\* the names of the backups printed, in the order of printing
Printed == [i \in 1..Len(out) |-> out[i].name]

\* the names of the backups fetched, in the order of the requests
Fetched ==
    LET gets == SelectSeq(calls, LAMBDA c : c.verb = "get") IN
    [i \in 1..Len(gets) |-> gets[i].name]

\* C17: describe-backup with several names processes them in argument
\* order, and the first name whose fetch or print fails aborts the run with
\* that error: no later name is fetched or printed.
C17_DescribeStopsAtFirstFailure ==
    (cmd = "describe-backup" /\ Invoked("Run")) =>
        LET f == FirstIn(o.names, FailingNames) IN
        /\ f = 0 => err = NoErr /\ Fetched = o.names /\ Printed = o.names
        /\ f # 0 =>
              /\ pc = "Fatal" /\ Failed("Run")
              /\ Contains(err, o.names[f])
              /\ Fetched = SubSeq(o.names, 1, f)
              /\ Printed = SubSeq(o.names, 1,
                              IF o.names[f] \in env.eventsFail /\
                                 \E b \in server.backups : b.name = o.names[f]
                              THEN f ELSE f - 1)

C17_Witness ==
    /\ cmd = "describe-backup" /\ Failed("Run")
    /\ o.names = <<"b1", "b9", "b2">>
    /\ env.eventsFail = {}
    /\ Fetched = <<"b1", "b9">>
    /\ Printed = <<"b1">>
    /\ err = NotFound("Backup", "b9")

\* C18: delete-backup with --force and no --name: after
\* completeForDeleteBackup returns nil the label selector is the one derived
\* from the cluster name, and the names set in the force branch
\* (ConfirmedNames = the cluster-name args) are still in place when Run is
\* called.
C18_ForceKeepsConfirmedNames ==
    (/\ cmd = "delete-backup" /\ o.Force /\ o.Names = <<>>
     /\ Invoked("Complete") /\ ~Failed("Complete")) =>
        /\ o.LabelSelector = <<{o.Args[1]}>>
        /\ o.ConfirmedNames = o.Args

\* C19: list-backup-policy in table mode (PrintBackupPolicyList) prints its
\* rows in ascending order of creation timestamp, whatever order the API
\* server returned the policies in.
C19_PolicyRowsOldestFirst ==
    (cmd \in BackupPolicyListers /\ TableMode /\ Invoked("Print")) =>
        \A k \in 1..Len(out) : Increasing(out[k].rows)

\* the parent backup named by --parent-backup exists, is Completed and its
\* app.kubernetes.io/instance label is not the target cluster name
ParentOfOtherCluster ==
    /\ cmd = "backup"
    /\ o.ParentBackupName # ""
    /\ \E b \in server.backups :
          /\ b.name = o.ParentBackupName
          /\ b.phase = "Completed"
          /\ b.cluster # o.Name

\* Validate returned nil only for a parent backup that exists, is Completed
\* and carries the target cluster's instance label
ParentAcceptedOnlyIfOwn ==
    (cmd = "backup" /\ o.ParentBackupName # "" /\ Invoked("Validate")
        /\ ~Failed("Validate")) =>
        \E b \in server.backups :
            /\ b.name = o.ParentBackupName
            /\ b.phase = "Completed"
            /\ b.cluster = o.Name

\* C20 (as claimed): CreateBackupOptions.Validate accepts a parent backup only
\* if it is Completed and its instance label equals the target cluster name; a
\* Completed parent backup labelled with a different cluster (or with no such
\* label) is rejected with an error naming both the parent backup and the
\* cluster.
C20_OtherClusterParentErrorNamesBoth ==
    /\ ParentAcceptedOnlyIfOwn
    /\ (ParentOfOtherCluster /\ Invoked("Validate")) =>
          /\ Failed("Validate")
          /\ Contains(err, o.ParentBackupName)
          /\ Contains(err, o.Name)

\* C20 (amended): CreateBackupOptions.Validate accepts a parent backup only if
\* it is Completed and its instance label equals the target cluster name; a
\* Completed parent backup labelled with a different cluster (or with no such
\* label) makes Validate fail and Run is not reached, and whenever Validate
\* got as far as the parent backup check the error names both the parent
\* backup and the cluster.
C20_OtherClusterParentRejected ==
    /\ ParentAcceptedOnlyIfOwn
    /\ (ParentOfOtherCluster /\ Invoked("Validate")) =>
          /\ Failed("Validate")
          /\ pc = "Fatal"
          /\ ~Invoked("Run")
          /\ WriteCalls = {}
          /\ ReachesParentCheck =>
                err = <<"parent backup", o.ParentBackupName,
                        "is not belong to cluster", o.Name>>

C20_Witness ==
    /\ ParentOfOtherCluster
    /\ ReachesParentCheck
    /\ Failed("Validate")
    /\ Contains(err, o.ParentBackupName)
    /\ Contains(err, o.Name)
    /\ \E b \in server.backups : b.name = o.ParentBackupName /\ b.cluster = ""

\* the keys of the pairs printed for the k-th backup described
KeysPrinted(k) == {out[k].lines[i][1] : i \in 1..Len(out[k].lines)}

\* the backup the k-th description is about
BackupDescribed(k) == CHOOSE b \in server.backups : b.name = out[k].name

\* the pairs of the guarded fields: none is printed for an empty field, and
\* no pair printed through realPrintPairStringToLine has an empty value
GuardedFieldsOmitted(k) ==
    LET b == BackupDescribed(k) IN
    /\ b.repo = "" => "Repository" \notin KeysPrinted(k)
    /\ b.pvc = "" => "PVC Name" \notin KeysPrinted(k)
    /\ b.duration = "" => "Duration" \notin KeysPrinted(k)
    /\ b.failureReason = "" => "Failure Reason" \notin KeysPrinted(k)
    /\ b.timeRange = <<>> =>
          KeysPrinted(k) \cap {"Time Range Start", "Time Range End"} = {}
    /\ (b.timeRange # <<>> /\ b.timeRange[1] = "") =>
          "Time Range Start" \notin KeysPrinted(k)
    /\ \A i \in 4..Len(out[k].lines) : out[k].lines[i][2] # <<>>

\* C21: describe-backup prints a key/value line for a field only when the
\* field has a value: for every field of the backup that is absent or empty
\* (including the cluster label, repository, PVC name, duration, time range,
\* failure reason), no line and no blank placeholder is printed.
C21_NoPairForEmptyField ==
    (cmd = "describe-backup" /\ Invoked("Run")) =>
        \A k \in 1..Len(out) :
            /\ GuardedFieldsOmitted(k)
            /\ BackupDescribed(k).cluster = "" => "Cluster" \notin KeysPrinted(k)
            /\ \A i \in 1..Len(out[k].lines) : out[k].lines[i][2] # <<>>

\* the default backup policies among those labelled with the target cluster
DefaultPoliciesOfCluster ==
    {p \in server.policies : p.cluster = o.Name /\ p.isDefault}

\* the backup command's Validate is about to run with no --policy given, for
\* a cluster that is named and exists
ValidatesWithoutPolicy ==
    /\ cmd = "backup" /\ pc = "Validate"
    /\ o.BackupPolicyName = ""
    /\ o.Name \in server.clusters

\* C22: when no --policy is given, CreateBackupOptions.Validate selects the
\* default backup policy among the policies labelled with the cluster: it
\* sets the policy name to that of the unique policy whose default
\* annotation is "true"; it returns an error, before any create request, when
\* the cluster has no backup policy, no default policy, or more than one
\* default policy.
C22_DefaultPolicySelected ==
    [][ValidatesWithoutPolicy =>
          /\ Cardinality(DefaultPoliciesOfCluster) = 1 =>
                /\ \E p \in DefaultPoliciesOfCluster :
                      o'.BackupPolicyName = p.name
                /\ err' \notin
                      {<<"not found any backup policy for cluster", o.Name>>,
                       <<"not found any default backup policy for cluster", o.Name>>,
                       <<"cluster", o.Name, "has multiple default backup policies">>}
          /\ Cardinality(DefaultPoliciesOfCluster) # 1 =>
                /\ pc' = "Fatal"
                /\ o'.BackupPolicyName = ""
                /\ \A i \in 1..Len(calls') : calls'[i].verb \notin WriteVerbs
                /\ err' =
                     IF ~\E p \in server.policies : p.cluster = o.Name
                     THEN <<"not found any backup policy for cluster", o.Name>>
                     ELSE IF DefaultPoliciesOfCluster = {}
                     THEN <<"not found any default backup policy for cluster", o.Name>>
                     ELSE <<"cluster", o.Name, "has multiple default backup policies">>
    ]_vars

C22_Witness ==
    /\ cmd = "backup" /\ Invoked("Validate") /\ ~Failed("Validate")
    /\ Call("list", "BackupPolicy", o.Name, "Validate") \in Range(calls)
    /\ o.BackupPolicyName = "p1"
    /\ \E p \in server.policies : p.cluster # o.Name /\ p.isDefault

\* edit-backup-policy is about to run with the editor, and the editor returns
\* only blank lines and '#' comment lines
EditorReturnsNoRow ==
    /\ cmd = "edit-backup-policy" /\ pc = "Run"
    /\ Len(o.values) = 0
    /\ \A i \in 1..Len(env.edited) : env.edited[i] \in SkippedRows

\* C23: edit-backup-policy in editor mode: when the text returned by the
\* editor is empty (or has only blank and '#' comment lines), the edit is
\* aborted, i.e. no Update call is issued on the BackupPolicy, whatever its
\* current field values are; lines beginning with '#' never contribute a
\* key=value row.
C23_EmptyEditSendsNoUpdate ==
    [][EditorReturnsNoRow =>
          /\ \A i \in 1..Len(calls') : calls'[i].verb # "update"
          /\ updates' = <<>>
          /\ o'.target = <<>>
    ]_vars

errMissingClusterName == <<"missing cluster name">>
errEmptyMethod ==
    <<"backup method can not be empty, you can specify it by --method">>
errInvalidRetention == <<"invalid retention period">>

\* the retention period given is one ToDuration rejects
RetentionInvalid ==
    o.RetentionPeriod # "" /\ o.RetentionPeriod \notin ValidRetentionPeriods

\* the requests the next step adds
NewCalls == SubSeq(calls', Len(calls) + 1, Len(calls'))

\* C24 (as claimed): CreateBackupOptions.Validate reports user-input errors
\* before any remote lookup is issued: a missing cluster name, an empty backup
\* method and an invalid retention period each make Validate return its error
\* with zero API calls made.
C24_InputErrorsBeforeAnyLookup ==
    [][(cmd = "backup" /\ pc = "Validate") =>
          /\ o.Name = "" => err' = errMissingClusterName /\ NewCalls = <<>>
          /\ (o.Name # "" /\ o.BackupMethod = "") =>
                err' = errEmptyMethod /\ NewCalls = <<>>
          /\ (o.Name # "" /\ o.BackupMethod # "" /\ RetentionInvalid) =>
                err' = errInvalidRetention /\ NewCalls = <<>>
    ]_vars

\* C24 (amended): a missing cluster name makes Validate return its error
\* with zero API calls; an empty backup method and an invalid retention
\* period make Validate fail, with read requests only, and their own errors
\* are returned after the backup policy was looked up: the last request is
\* the Get of the backup policy, which exists.
C24_InputErrorsAfterPolicyLookup ==
    [][(cmd = "backup" /\ pc = "Validate") =>
          /\ o.Name = "" => err' = errMissingClusterName /\ NewCalls = <<>>
          /\ (o.Name = "" \/ o.BackupMethod = "" \/ RetentionInvalid) =>
                /\ err' # NoErr /\ pc' = "Fatal"
                /\ \A i \in 1..Len(NewCalls) : NewCalls[i].verb \in ReadVerbs
          /\ err' \in {errEmptyMethod, errInvalidRetention} =>
                /\ err' = errEmptyMethod <=> o.BackupMethod = ""
                /\ err' = errInvalidRetention => RetentionInvalid
                /\ Len(NewCalls) \in {1, 3}
                /\ NewCalls[Len(NewCalls)] =
                      Call("get", "BackupPolicy", o'.BackupPolicyName, "Validate")
                /\ \E p \in server.policies : p.name = o'.BackupPolicyName
          /\ (o.Name # "" /\ (o.BackupMethod = "" \/ RetentionInvalid)
                /\ \E p \in server.policies : p.name = o'.BackupPolicyName) =>
                err' = IF o.BackupMethod = "" THEN errEmptyMethod
                       ELSE errInvalidRetention
    ]_vars

C24_Witness ==
    /\ cmd = "backup" /\ Failed("Validate")
    /\ err = errInvalidRetention
    /\ Len(calls) = 3
    /\ calls[3] = Call("get", "BackupPolicy", "p1", "Validate")
    /\ \A i \in 1..3 : calls[i].verb \in ReadVerbs

\* a row of the edit makes applyChanges fail
SomeRowFails ==
    \E i \in 1..Len(o.values) :
        o.values[i] \in MalformedRows \cup UnknownKeyRows \cup FailingUpdateRows

\* C25: edit-backup-policy: if any row is malformed, has an unknown key, or
\* its update function fails, applyChanges returns the error without issuing
\* the Update call and without printing "updated", so the remote BackupPolicy
\* is unchanged; the Update call, when it happens, comes only after every row
\* has been applied successfully.
C25_FailingRowLeavesPolicyUnchanged ==
    (cmd = "edit-backup-policy" /\ Invoked("Run")) =>
        /\ SomeRowFails =>
              /\ Failed("Run") /\ pc = "Fatal"
              /\ ~Updated
              /\ out = <<>>
              /\ \A p \in server.policies : p.repo = env.before
        /\ Updated =>
              /\ ~SomeRowFails
              /\ calls[Len(calls)].verb = "update"
              /\ \A i \in 1..(Len(calls) - 1) : calls[i].verb # "update"
              /\ updates = Ascending({i \in 1..Len(o.values) :
                                         o.values[i] \notin SkippedRows})

C25_Witness ==
    /\ cmd = "edit-backup-policy" /\ Failed("Run")
    /\ Len(o.values) = 2
    /\ o.values[1] = <<KeyRepoName, EQ, "r1">>
    /\ o.values[2] \in FailingUpdateRows
    /\ updates = <<1, 2>>
    /\ err = NotFound("BackupRepo", "r9")
    /\ env.before = "r2"
    /\ \A p \in server.policies : p.repo = "r2"
    /\ ~Updated

\* the number of comma-separated key=value pairs a --set value holds
PairsIn(v) == Len(Split(v, COMMA))

\* C26: edit-backup-policy --set accepts multiple values either as repeated
\* flags or as one comma-separated value (key1=val1,key2=val2): a single
\* --set value holding several comma-separated key=value pairs is applied as
\* that many separate rows, each through its own update function.
C26_CommaSeparatedSetAppliedAsRows ==
    (cmd = "edit-backup-policy" /\ Invoked("Run")
        /\ env.edited = <<<<>>>> /\ Len(o.values) = 1
        /\ PairsIn(o.values[1]) > 1
        /\ \E p \in server.policies : p.name = o.name) =>
        /\ Len(updates) = PairsIn(o.values[1])
        /\ err # <<"invalid row">>

\* the policies that carry the label of one of the clusters named on the
\* command line (every policy when no cluster is named)
PoliciesOfArgs ==
    {p \in server.policies : Len(o.Args) = 0 \/ p.cluster \in Range(o.Args)}

\* the names describe-backup-policy has to print
PoliciesToDescribe ==
    IF Len(o.Names) = 0
    THEN {p.name : p \in {q \in PoliciesOfArgs : q.isDefault}}
    ELSE {p.name : p \in {q \in PoliciesOfArgs : q.name \in Range(o.Names)}}

\* C27: describe-backup-policy: Validate returns an error when neither a
\* cluster name nor a --name is given; in Run, when no --name is given
\* exactly the policies marked default among those matching the cluster
\* selector are printed, and when --name values are given exactly the
\* matching policies whose name is in that set are printed, default or not.
C27_DescribesDefaultOrNamedPolicies ==
    (cmd = "describe-backup-policy") =>
        /\ (Invoked("Validate") /\ Len(o.Args) = 0 /\ Len(o.Names) = 0) =>
              /\ Failed("Validate") /\ pc = "Fatal" /\ ~Invoked("Run")
              /\ err = <<"missing cluster name or backup policy name">>
        /\ (Invoked("Validate") /\ (Len(o.Args) > 0 \/ Len(o.Names) > 0)) =>
              ~Failed("Validate")
        /\ (Invoked("Run") /\ ~Failed("Run")) =>
              IF PoliciesOfArgs = {}
              THEN out = <<"No backup policy found">>
              ELSE /\ Range(out) = PoliciesToDescribe
                   /\ Len(out) = Cardinality(PoliciesToDescribe)

C27_Witness ==
    /\ cmd = "describe-backup-policy" /\ Invoked("Run")
    /\ o.Args = <<"c1">> /\ o.Names = <<"p2">>
    /\ out = <<"p2">>
    /\ \E p \in server.policies : p.name = "p2" /\ ~p.isDefault
    /\ \E p \in server.policies : p.name = "p1" /\ p.isDefault

\* the deployments that carry the chart's name label and the component label
DeploysOf(component) ==
    {d \in server.deploys :
        /\ <<"app.kubernetes.io/name", "kubeblocks">> \in d.labels
        /\ <<"app.kubernetes.io/component", component>> \in d.labels}

\* the version labels of a deployment
VersionsOf(d) == {l[2] : l \in {x \in d.labels : x[1] = "app.kubernetes.io/version"}}

\* a lookup of util/version.go returned, and its List had succeeded
LookedUp(fn) == cmd = fn /\ Invoked("Call") /\ err # <<"list failed">>

\* what a lookup of the deployment of a component has to return
OneDeployOrNone(component) ==
    LET m == DeploysOf(component) IN
    /\ m = {} => out[1].deploy = NoDeploy /\ err = NoErr
    /\ Cardinality(m) = 1 => out[1].deploy \in m /\ err = NoErr
    /\ Cardinality(m) > 1 => out[1].deploy = NoDeploy /\ err # NoErr

\* C28: GetKubeBlocksDeploy and GetDataProtectionDeploy support at most one
\* matching deployment: they return (nil, nil) when none matches, the
\* deployment when exactly one matches, and an error when more than one
\* matches; getKubeBlocksVersion returns an empty version with no error when
\* KubeBlocks is not installed, and an error when the single deployment has
\* no labels or no app.kubernetes.io/version label.
C28_AtMostOneDeployment ==
    /\ LookedUp("GetKubeBlocksDeploy") => OneDeployOrNone("apps")
    /\ LookedUp("GetDataProtectionDeploy") => OneDeployOrNone("dataprotection")
    /\ LookedUp("getKubeBlocksVersion") =>
          LET m == DeploysOf("apps") IN
          /\ m = {} => out[1].version = "" /\ err = NoErr
          /\ Cardinality(m) > 1 => out[1].version = "" /\ err # NoErr
          /\ \A d \in m :
                Cardinality(m) = 1 =>
                   IF VersionsOf(d) = {}
                   THEN out[1].version = "" /\ err # NoErr
                   ELSE out[1].version \in VersionsOf(d) /\ err = NoErr

C28_Witness ==
    /\ LookedUp("getKubeBlocksVersion")
    /\ DeploysOf("apps") = {Deploy("kb2", "apps", "")}
    /\ DeploysOf("dataprotection") # {}
    /\ err = <<"KubeBlocks deployment has no version label">>
    /\ out[1].version = ""

\* C29: CreateRestoreOptions.Validate returns an error and issues no remote
\* call when --backup is empty; whenever it returns nil, Name is non-empty
\* (the given name, or a generated one when none was given) and
\* OpsRequestName = ClusterRef = Name with OpsType set to the restore type.
C29_RestoreValidateSetsNames ==
    [][(cmd = "restore" /\ pc = "Validate") =>
          /\ o.RestoreBackupName = "" =>
                /\ err' = <<"must be specified one of the --backup">>
                /\ calls' = calls
                /\ pc' = "Fatal"
          /\ err' = NoErr =>
                /\ o'.Name # ""
                /\ o.Name # "" => o'.Name = o.Name /\ calls' = calls
                /\ o'.OpsRequestName = Text(o'.Name)
                /\ o'.ClusterRef = o'.Name
                /\ o'.OpsType = "Restore"
    ]_vars

C29_Witness ==
    /\ cmd = "restore" /\ Invoked("Validate") /\ ~Failed("Validate")
    /\ o.Args = <<>>
    /\ o.Name = "gen1"
    /\ o.OpsRequestName = <<"gen1">> /\ o.ClusterRef = "gen1"
    /\ o.OpsType = "Restore"
    /\ calls # <<>>

\* the four options config-smtpserver requires are all set
SMTPRequiredSet ==
    /\ o.smtpFrom # "" /\ o.smtpSmarthost # ""
    /\ o.smtpAuthUsername # "" /\ o.smtpAuthPassword # ""

\* C30: config-smtpserver option validation fails whenever any of smtp-from,
\* smtp-smarthost, smtp-auth-username or smtp-auth-password is unset (in
\* particular when nothing is set), and succeeds when all four are set.
C30_SMTPValidateNeedsAllFour ==
    (cmd = "config-smtpserver" /\ Invoked("validate")) =>
        /\ Failed("validate") <=> ~SMTPRequiredSet
        /\ Failed("validate") => err # NoErr /\ pc = "Fatal" /\ calls = <<>>

C30_Witness ==
    /\ cmd = "config-smtpserver" /\ Failed("validate")
    /\ o.smtpFrom # "" /\ o.smtpSmarthost # "" /\ o.smtpAuthUsername # ""
    /\ o.smtpAuthPassword = ""
    /\ pc = "Fatal"

====
